---- MODULE Spec2Model ----
(***************************************************************************)
(* The API access layer of the YouTube channel dashboard                   *)
(* (src/services/youtubeService.ts): the credential pool (apiKeys,         *)
(* currentKeyIndex), the resilient fetcher fetchYouTubeAPI, the channel    *)
(* resolver resolveChannelId and the query operations; and the handlers of *)
(* the App component (App.tsx) that call them and keep the persisted state.*)
(*                                                                         *)
(* JavaScript runs each handler as non-preemptible segments between        *)
(* awaits, so one action is one segment: everything a call does from the   *)
(* settling of the promise it awaits to its next await (or its return).    *)
(***************************************************************************)
EXTENDS Integers, Sequences, FiniteSets, TLC

VARIABLES
    apiKeys,          \* youtubeService.ts:6   the pool, a sequence of keys
    currentKeyIndex,  \* youtubeService.ts:7   the cursor, 0-based
    pc,               \* per logical call: "idle", "inflight" (awaiting fetch), "done"
    attempt,          \* per logical call: the `attempt` argument of the innermost frame
    apiKey,           \* per logical call: the `apiKey` local of the innermost frame
    result,           \* per logical call: what its promise settled to
    raised,           \* history: the error thrown at youtubeService.ts:34, if it was
    log,              \* history: the HTTP attempts of an observed call, in order
    replaced,         \* history: setApiKeys ran while the observed call was active
    configArg,        \* history: the argument of the last setApiKeys
    configPrevIndex,  \* history: the cursor just before the last setApiKeys
    served,           \* history: what getNextApiKey returned since the last setApiKeys
    rpc,              \* resolveChannelId: "idle", "username", "search", "done"
    rid,              \* resolveChannelId: its channelIdentifier argument
    rresult,          \* resolveChannelId: what its promise settled to
    rcalls,           \* history: the fetchYouTubeAPI calls this resolve has made
    rattempts,        \* history: the settled fetchYouTubeAPI calls of this resolve
    qop,              \* query service: the running operation, or "none"
    qpc,              \* query service: "idle", "search", "videos", "playlist", "done"
    qargs,            \* query service: the operation's arguments
    qloc,             \* query service: the operation's locals
    qres,             \* query service: what the operation's promise settled to
    qcat,             \* upstream: the pages of the collection the operation reads
    req,              \* the endpoint and parameters of the logical call "A"
    qcalls,           \* history: the fetchYouTubeAPI calls of the operation, in order
    storage,          \* localStorage: what getItem returns for each of the four keys
    apiKeysState,     \* App: apiKeys
    trackedChannels,  \* App: trackedChannels
    channelGroups,    \* App: channelGroups
    videosPerPage,    \* App: videosPerPage
    appError,         \* App: error
    isLoading,        \* App: isLoading
    isSettingsOpen,   \* App: isSettingsOpen
    view,             \* App: view
    comparisonData,   \* App: comparisonData
    isLoadingComparison, \* App: isLoadingComparison
    selectedGroup,    \* App: selectedGroup (<<>> is null)
    comparisonDateRange, \* App: comparisonDateRange (<<>> is null)
    gpc,              \* handleSelectGroup: "idle", or "awaiting" its Promise.all
    gchannels,        \* handleSelectGroup: groupChannels
    gjobs,            \* handleSelectGroup: per channel, what its three promises settled to
    gfetch,           \* history: per channel and promise, how its fetching went
    isAddingChannel,  \* App: isAddingChannel
    apc,              \* handleAddChannel: "idle", or "awaiting" getChannelStats
    channelInput,          \* handleAddChannel: identifiers
    aidx,             \* handleAddChannel: the position of the for loop in identifiers
    anew,             \* handleAddChannel: newChannels
    aerrors,          \* handleAddChannel: errors
    aclosure,         \* handleAddChannel: the trackedChannels of its closure
    alog,             \* history: what handleAddChannel did with each identifier
    selectedChannel,  \* App: selectedChannel (<<>> is null)
    isLoadingVideos,  \* App: isLoadingVideos
    isLoadingMore,    \* App: isLoadingMore
    spc,              \* handleSelectChannel: "idle", or "awaiting" getChannelVideos
    sfor,             \* handleSelectChannel: stats, the channel it fetches for
    lpc,              \* handleLoadMore: "idle", or "awaiting" getChannelVideos
    lfor,             \* handleLoadMore: the channel id and page token it fetches for
    sortOrder,        \* App: sortOrder
    fnum,             \* formatNumber: its argument
    fres              \* formatNumber: what it returned (<<>> before the call)

poolVars == <<apiKeys, currentKeyIndex>>
callVars == <<pc, attempt, apiKey, result, raised, log, replaced>>
histVars == <<configArg, configPrevIndex, served>>
resolveVars == <<rpc, rid, rresult, rcalls, rattempts>>
queryVars == <<qop, qpc, qargs, qloc, qres, qcat, req, qcalls>>
storeVars == <<storage, apiKeysState, trackedChannels, channelGroups, videosPerPage,
               appError, isLoading, isSettingsOpen>>
groupVars == <<view, comparisonData, isLoadingComparison, selectedGroup,
               comparisonDateRange, gpc, gchannels, gjobs, gfetch>>
addVars == <<isAddingChannel, apc, channelInput, aidx, anew, aerrors, aclosure, alog>>
singleVars == <<selectedChannel, isLoadingVideos, isLoadingMore, spc, sfor, lpc, lfor,
                sortOrder>>
formatVars == <<fnum, fres>>
appVars == <<storeVars, groupVars, addVars, singleVars, formatVars>>
vars == <<apiKeys, currentKeyIndex, pc, attempt, apiKey, result, raised, log,
          replaced, configArg, configPrevIndex, served, rpc, rid, rresult, rcalls,
          rattempts,
          qop, qpc, qargs, qloc, qres, qcat, req, qcalls, appVars>>

(***************************************************************************)
(* Bounds and input sets                                                   *)
(***************************************************************************)
\* The longest pool configured while logical calls run.
MaxPool == 2

\* The number of distinct keys, and the longest pool, in the rotation of the
\* pool taken alone.
MaxKeys == 3

\* A key is named by a number; equal numbers are equal key strings.
Keys == 1..MaxKeys

\* Every key sequence of length at most MaxKeys (duplicates, any order).
AllPools == UNION {[1..n -> Keys] : n \in 0..MaxKeys}

\* The pools of n distinct keys in insertion order.
DistinctPools == {[i \in 1..n |-> i] : n \in 0..MaxPool}

\* The logical calls that can be in flight together; those of Observed keep
\* a history of their HTTP attempts.
Calls == {"A", "B"}
Observed == {"A"}

Range(s) == {s[i] : i \in DOMAIN s}

(***************************************************************************)
(* Strings the code inspects character by character are tuples of          *)
(* one-character strings.                                                  *)
(***************************************************************************)
Repeat(ch, n) == [i \in 1..n |-> ch]

StartsWith(s, prefix) ==
    /\ Len(s) >= Len(prefix)
    /\ \A i \in 1..Len(prefix) : s[i] = prefix[i]

(***************************************************************************)
(* Upstream responses (spec section 6): success with an item list, an HTTP *)
(* error with a reason code, or a transport failure (fetch rejects).       *)
(***************************************************************************)
ChannelX == <<"U", "C">> \o Repeat("x", 22)
NoId == <<>>
ItemLists == {<<>>, <<ChannelX>>, <<NoId>>}
Reasons == {"quotaExceeded", "dailyLimitExceeded", "forbidden"}

Responses ==
    {[type |-> "ok", reason |-> "", items |-> it] : it \in ItemLists}
    \cup {[type |-> "httpError", reason |-> r, items |-> <<>>] : r \in Reasons}
    \cup {[type |-> "networkError", reason |-> "", items |-> <<>>]}

(***************************************************************************)
(* What a logical call's promise settles to.                               *)
(***************************************************************************)
NoResult == [kind |-> "none", poolSize |-> 0, message |-> "", data |-> <<>>]
OkResult(items) == [kind |-> "ok", poolSize |-> 0, message |-> "", data |-> items]
NoKeysError ==
    [kind |-> "NoCredentialsConfigured", poolSize |-> 0, message |-> "", data |-> <<>>]
AllKeysFailed(n) ==
    [kind |-> "AllCredentialsExhausted", poolSize |-> n, message |-> "", data |-> <<>>]
UpstreamError(resp) ==
    [kind |-> "UpstreamRequestFailed", poolSize |-> 0, message |-> resp.reason,
     data |-> <<>>]
TransportError ==
    [kind |-> "TransportError", poolSize |-> 0, message |-> "", data |-> <<>>]

(***************************************************************************)
(* Credential pool                                                         *)
(***************************************************************************)
SetApiKeys_KeepIndex(keys) ==
    /\ apiKeys' = keys
    /\ UNCHANGED currentKeyIndex

SetApiKeys_Reversed(keys) ==
    /\ apiKeys' = [i \in 1..Len(keys) |-> keys[Len(keys) + 1 - i]]
    /\ currentKeyIndex' = 0

SetApiKeys(keys) ==
    /\ apiKeys' = keys
    /\ currentKeyIndex' = 0

NoKeys == Len(apiKeys) = 0

NextKey == apiKeys[currentKeyIndex + 1]

AdvancedIndex_Stuck == currentKeyIndex

AdvancedIndex == (currentKeyIndex + 1) % Len(apiKeys)

(***************************************************************************)
(* fetchYouTubeAPI                                                         *)
(***************************************************************************)
Exhausted_OffByOne(att) == att > Len(apiKeys) /\ Len(apiKeys) > 0

Exhausted_NoGuard(att) == att >= Len(apiKeys)

Exhausted(att) == att >= Len(apiKeys) /\ Len(apiKeys) > 0

IsQuotaReason(reason) == reason = "quotaExceeded" \/ reason = "dailyLimitExceeded"

QuotaRetry(reason) == IsQuotaReason(reason) /\ Len(apiKeys) > 1

IsRetryLogicError(err) == err.kind = "AllCredentialsExhausted"

CatchRetry_NoBound(att) == Len(apiKeys) > 1

CatchRetry(att) == Len(apiKeys) > 1 /\ att < Len(apiKeys) - 1

\* A result leaving the frame that made the recursive call: `return
\* fetchYouTubeAPI(...)` hands the inner promise on without awaiting it, so the
\* frame's own catch block is not entered and the result passes as it is.
ThroughFrame_Rewrap(res) ==
    IF res.kind = "AllCredentialsExhausted"
    THEN [res EXCEPT !.kind = "UpstreamRequestFailed"]
    ELSE res

ThroughFrame(res) == res

RECURSIVE Unwind(_, _)
Unwind(res, depth) ==
    IF depth = 0 THEN res ELSE Unwind(ThroughFrame(res), depth - 1)

\* History of the observed calls only.
Keep(c, value, blank) == IF c \in Observed THEN value ELSE blank

Class(resp) ==
    CASE resp.type = "ok" -> "ok"
      [] resp.type = "networkError" -> "network"
      [] resp.reason \in {"quotaExceeded", "dailyLimitExceeded"} -> "quota"
      [] OTHER -> "other"

Recorded(lg, resp) ==
    IF lg = <<>> THEN lg ELSE [lg EXCEPT ![Len(lg)].class = Class(resp)]

\* The promise of call c settles to res, thrown or returned by the frame at
\* depth att; thrown is the error of line 34 when that is what was thrown.
Settle(c, att, lg, res, thrown) ==
    /\ pc' = [pc EXCEPT ![c] = "done"]
    /\ attempt' = [attempt EXCEPT ![c] = 0]
    /\ apiKey' = [apiKey EXCEPT ![c] = 0]
    /\ result' = [result EXCEPT ![c] = Unwind(res, att)]
    /\ raised' = [raised EXCEPT ![c] = thrown]
    /\ log' = [log EXCEPT ![c] = Keep(c, lg, <<>>)]
    /\ UNCHANGED poolVars

\* A frame of fetchYouTubeAPI from its entry to its `await fetch(...)`.
Enter(c, att, lg) ==
    IF Exhausted(att)
    THEN Settle(c, att, lg, AllKeysFailed(Len(apiKeys)), AllKeysFailed(Len(apiKeys)))
    ELSE IF NoKeys
    THEN Settle(c, att, lg, NoKeysError, NoResult)
    ELSE /\ pc' = [pc EXCEPT ![c] = "inflight"]
         /\ attempt' = [attempt EXCEPT ![c] = att]
         /\ apiKey' = [apiKey EXCEPT ![c] = NextKey]
         /\ currentKeyIndex' = AdvancedIndex
         /\ log' = [log EXCEPT
                ![c] = Keep(c, Append(lg, [key |-> NextKey, class |-> "pending"]), <<>>)]
         /\ result' = [result EXCEPT ![c] = NoResult]
         /\ raised' = [raised EXCEPT ![c] = NoResult]
         /\ UNCHANGED apiKeys

\* The catch block of the frame at depth att, entered with err.
Caught(c, att, lg, err) ==
    IF IsRetryLogicError(err)
    THEN Settle(c, att, lg, err, NoResult)
    ELSE IF CatchRetry(att)
    THEN Enter(c, att + 1, lg)
    ELSE Settle(c, att, lg, err, NoResult)

\* The frame at depth att from the settling of fetch(...) on.
Continue(c, att, lg, resp) ==
    CASE resp.type = "ok" -> Settle(c, att, lg, OkResult(resp.items), NoResult)
      [] resp.type = "httpError" ->
            IF QuotaRetry(resp.reason)
            THEN Enter(c, att + 1, lg)
            ELSE Caught(c, att, lg, UpstreamError(resp))
      [] OTHER -> Caught(c, att, lg, TransportError)

(***************************************************************************)
(* Actions of the fetcher                                                  *)
(***************************************************************************)
\* A caller starts the logical call c: fetchYouTubeAPI(endpoint, params).
StartCall(c) ==
    /\ pc[c] = "idle"
    /\ Enter(c, 0, <<>>)
    /\ UNCHANGED <<replaced, histVars, resolveVars, queryVars, appVars>>

\* The HTTP request of call c settles with resp.
Receive(c, resp) ==
    /\ pc[c] = "inflight"
    /\ Continue(c, attempt[c], Recorded(log[c], resp), resp)
    /\ UNCHANGED <<replaced, histVars, resolveVars, queryVars, appVars>>

\* The caller has consumed the settled promise of call c.
Return(c) ==
    /\ pc[c] = "done"
    /\ pc' = [pc EXCEPT ![c] = "idle"]
    /\ result' = [result EXCEPT ![c] = NoResult]
    /\ raised' = [raised EXCEPT ![c] = NoResult]
    /\ log' = [log EXCEPT ![c] = <<>>]
    /\ replaced' = [replaced EXCEPT ![c] = FALSE]
    /\ UNCHANGED <<poolVars, attempt, apiKey, histVars, resolveVars, queryVars, appVars>>

(***************************************************************************)
(* Persisted client state: localStorage under four keys.  An item is the   *)
(* text stored under a key: what it encodes, its elements, and whether the *)
(* text is whole (a text cut short is malformed JSON).                     *)
(***************************************************************************)
ApiKeysItem == "youtubeApiKeys"
ChannelsItem == "youtubeTrackedChannels"
GroupsItem == "youtubeChannelGroups"
VideosPerPageItem == "youtubeVideosPerPage"
StoreKeys == {ApiKeysItem, ChannelsItem, GroupsItem, VideosPerPageItem}

\* getItem returns null: nothing is stored under the key.
NoItem == [kind |-> "null", whole |-> TRUE, items |-> <<>>]

\* JSON.stringify of an array.
Stringify_DropLast(list) ==
    [kind |-> "array", whole |-> TRUE,
     items |-> IF list = <<>> THEN <<>> ELSE SubSeq(list, 1, Len(list) - 1)]

Stringify(list) == [kind |-> "array", whole |-> TRUE, items |-> list]

\* A stored array text cut short, and the text of a JSON object.
Malformed(list) == [kind |-> "array", whole |-> FALSE, items |-> list]
ObjectText == [kind |-> "object", whole |-> TRUE, items |-> <<>>]

\* `saved ? ... : ...`: the item is there.
Saved(item) == item.kind # "null"

\* JSON.parse throws on the item.
ParseThrows(item) == ~item.whole

\* JSON.parse of an item it does not throw on, and Array.isArray of that.
Parse(item) == item.items
IsArray(item) == item.kind = "array"

\* handleApiKeysChange: the settings change the pool, possibly mid-call.
Reconfigure(keys) ==
    /\ apiKeysState' = keys
    /\ SetApiKeys(keys)
    /\ storage' = [storage EXCEPT ![ApiKeysItem] = Stringify(keys)]
    /\ replaced' = [c \in Calls |-> Keep(c, replaced[c] \/ pc[c] # "idle", FALSE)]
    /\ UNCHANGED <<pc, attempt, apiKey, result, raised, log, histVars, resolveVars, queryVars>>
    /\ UNCHANGED <<trackedChannels, channelGroups, videosPerPage, appError, isLoading,
                   isSettingsOpen, groupVars, addVars, singleVars, formatVars>>

(***************************************************************************)
(* The pool taken alone: setApiKeys and getNextApiKey called directly.     *)
(***************************************************************************)
Configure(keys) ==
    /\ SetApiKeys(keys)
    /\ configArg' = keys
    /\ configPrevIndex' = currentKeyIndex
    /\ served' = <<>>
    /\ UNCHANGED <<callVars, resolveVars, queryVars, appVars>>

\* getNextApiKey(): 0 in served stands for the thrown configuration error.
GetNextApiKey ==
    /\ Len(served) <= Len(apiKeys)
    /\ IF NoKeys
       THEN /\ served' = Append(served, 0)
            /\ UNCHANGED poolVars
       ELSE /\ served' = Append(served, NextKey)
            /\ currentKeyIndex' = AdvancedIndex
            /\ UNCHANGED apiKeys
    /\ UNCHANGED <<configArg, configPrevIndex, callVars, resolveVars, queryVars, appVars>>

(***************************************************************************)
(* resolveChannelId; its fetchYouTubeAPI calls are the logical call "A".   *)
(***************************************************************************)
UCShort == <<"U", "C", "x">>
Handle == <<"h", "d", "l">>
Plain24 == Repeat("a", 24)
ChannelY == <<"U", "C">> \o Repeat("y", 22)
Identifiers == {ChannelX, ChannelY, UCShort, Handle, Plain24}

ChannelNotFound ==
    [kind |-> "ChannelNotFound", poolSize |-> 0, message |-> "", data |-> <<>>]

FastPath_LowerCase(id) == StartsWith(id, <<"u", "c">>)

FastPath(id) == StartsWith(id, <<"U", "C">>)

\* `searchData.items && searchData.items.length > 0 &&
\* searchData.items[0].snippet.channelId`
SearchUsable_AnyItem(items) == Len(items) > 0

SearchUsable(items) == Len(items) > 0 /\ items[1] # NoId

\* The settled call "A" is consumed by the resolver.
Consumed ==
    /\ pc' = [pc EXCEPT !["A"] = "idle"]
    /\ result' = [result EXCEPT !["A"] = NoResult]
    /\ raised' = [raised EXCEPT !["A"] = NoResult]
    /\ log' = [log EXCEPT !["A"] = <<>>]
    /\ replaced' = [replaced EXCEPT !["A"] = FALSE]
    /\ UNCHANGED <<poolVars, attempt, apiKey>>

\* What the history keeps of the settled call "A": its HTTP attempts, how it
\* ended, and whether the pool was replaced while it ran.
SettledCall ==
    [attempts |-> Len(log["A"]), kind |-> result["A"].kind, replaced |-> replaced["A"]]

\* resolveChannelId(id) up to its first await, or to its return.
ResolveBegin(id) ==
    /\ rpc = "idle"
    /\ pc["A"] = "idle"
    /\ rid' = id
    /\ IF FastPath(id)
       THEN /\ rpc' = "done"
            /\ rresult' = OkResult(id)
            /\ rcalls' = 0
            /\ rattempts' = <<>>
            /\ UNCHANGED <<poolVars, callVars>>
       ELSE /\ rpc' = "username"
            /\ rresult' = NoResult
            /\ rcalls' = 1
            /\ rattempts' = <<>>
            /\ Enter("A", 0, <<>>)
            /\ UNCHANGED replaced

ResolveStart(id) ==
    /\ ResolveBegin(id)
    /\ UNCHANGED <<histVars, queryVars, appVars>>

\* The forUsername lookup has settled.
ResolveUsername ==
    /\ rpc = "username"
    /\ pc["A"] = "done"
    /\ IF result["A"].kind = "ok" /\ Len(result["A"].data) > 0
       THEN /\ rpc' = "done"
            /\ rresult' = OkResult(result["A"].data[1])
            /\ Consumed
            /\ UNCHANGED rcalls
            /\ rattempts' = Append(rattempts, SettledCall)
       ELSE /\ rpc' = "search"
            /\ rcalls' = rcalls + 1
            /\ rattempts' = Append(rattempts, SettledCall)
            /\ Enter("A", 0, <<>>)
            /\ replaced' = [replaced EXCEPT !["A"] = FALSE]
            /\ UNCHANGED rresult
    /\ UNCHANGED <<rid, histVars, queryVars, appVars>>

\* The search has settled.
ResolveSearch ==
    /\ rpc = "search"
    /\ pc["A"] = "done"
    /\ rpc' = "done"
    /\ rresult' =
          IF result["A"].kind # "ok" THEN result["A"]
          ELSE IF SearchUsable(result["A"].data)
          THEN OkResult(result["A"].data[1])
          ELSE ChannelNotFound
    /\ Consumed
    /\ rattempts' = Append(rattempts, SettledCall)
    /\ UNCHANGED <<rid, rcalls, histVars, queryVars, appVars>>

ResolveReturn ==
    /\ rpc = "done"
    /\ rpc' = "idle"
    /\ rid' = <<>>
    /\ rresult' = NoResult
    /\ rcalls' = 0
    /\ rattempts' = <<>>
    /\ UNCHANGED <<poolVars, callVars, histVars, queryVars, appVars>>

(***************************************************************************)
(* Channel/Video query service.  One operation runs at a time; each of its *)
(* fetchYouTubeAPI calls is the logical call "A".  qcat is what upstream   *)
(* holds for the query at hand: the pages it returns, in order, the token  *)
(* of page k being k.                                                      *)
(***************************************************************************)
\* Page tokens are positive; this is `undefined`.
NoToken == 0

\* An absent (undefined) string field of an upstream item.
Absent == <<>>

\* Time units per day of the instants that Date.getTime() returns.
DayUnits == 2

\* The most pages a collection has.
MaxPages == 2

\* Upstream items: decimal counts are tuples of digits.
V1 == [id |-> "v1", publishedAt |-> [day |-> 2, tod |-> 0],
       viewCount |-> <<"1", "2">>, likeCount |-> <<"4">>, commentCount |-> <<"1">>]
V2 == [id |-> "v2", publishedAt |-> [day |-> 1, tod |-> 0],
       viewCount |-> <<"7">>, likeCount |-> Absent, commentCount |-> Absent]
V3 == [id |-> "v3", publishedAt |-> [day |-> 1, tod |-> 1],
       viewCount |-> Absent, likeCount |-> <<"0">>, commentCount |-> <<"5">>]
Videos == {V1, V2, V3}

IsInjective(f) == \A i, j \in DOMAIN f : f[i] = f[j] => i = j

\* A page: distinct videos in some order; possibly none.
Pages == {pg \in UNION {[1..n -> Videos] : n \in 0..Cardinality(Videos)} : IsInjective(pg)}

\* A collection: at least one page, no video on two pages.
Catalogs ==
    {cat \in UNION {[1..n -> Pages] : n \in 1..MaxPages} :
        \A i, j \in DOMAIN cat : i # j => Range(cat[i]) \cap Range(cat[j]) = {}}

\* The page sizes a caller asks for: one video, or room for all of them.
PageSizes == {1, Cardinality(Videos)}

\* Upstream returns at most maxResults items a page.
Fits(cat, maxResults) == \A p \in DOMAIN cat : Len(cat[p]) <= maxResults

VideosOf(cat) == UNION {Range(cat[i]) : i \in DOMAIN cat}

TokensOf(cat) == {NoToken} \cup (2..Len(cat))

NoReq == [endpoint |-> "none", maxResults |-> 0, pageToken |-> NoToken, ids |-> <<>>,
          ranged |-> FALSE]

SearchReq(maxResults, pageToken, ranged) ==
    [endpoint |-> "search", maxResults |-> maxResults, pageToken |-> pageToken,
     ids |-> <<>>, ranged |-> ranged]

VideosReq(ids) ==
    [endpoint |-> "videos", maxResults |-> 0, pageToken |-> NoToken, ids |-> ids,
     ranged |-> FALSE]

PlaylistReq(maxResults, pageToken) ==
    [endpoint |-> "playlistItems", maxResults |-> maxResults, pageToken |-> pageToken,
     ids |-> <<>>, ranged |-> FALSE]

\* The JSON body upstream returns to request r on collection cat.
Body(r, cat) ==
    IF r.endpoint = "videos"
    THEN [items |-> [i \in 1..Len(r.ids) |-> CHOOSE v \in VideosOf(cat) : v.id = r.ids[i]],
          nextPageToken |-> NoToken]
    ELSE LET p == IF r.pageToken = NoToken THEN 1 ELSE r.pageToken
         IN [items |-> cat[p],
             nextPageToken |-> IF p < Len(cat) THEN p + 1 ELSE NoToken]

UpstreamResponses ==
    {[type |-> "ok", reason |-> "", items |-> Body(req, qcat)]}
    \cup {[type |-> "httpError", reason |-> r, items |-> <<>>] : r \in Reasons}
    \cup {[type |-> "networkError", reason |-> "", items |-> <<>>]}

\* What an operation's promise settles to: a value, or the error thrown.
QNone == [kind |-> "none", value |-> <<>>, error |-> NoResult]
QOk(v) == [kind |-> "ok", value |-> v, error |-> NoResult]
QErr(e) == [kind |-> "error", value |-> <<>>, error |-> e]

NoArgs == [maxResults |-> 0, pageToken |-> NoToken, ranged |-> FALSE,
           start |-> [day |-> 0, tod |-> 0], end |-> [day |-> 0, tod |-> 0],
           via |-> "none"]

NoLocals == [nextPageToken |-> NoToken, totalViews |-> 0, totalVideos |-> 0]

\* The operation makes the fetchYouTubeAPI call r; earlier are its calls so far.
QIssue(earlier, r) ==
    /\ req' = r
    /\ qcalls' = Append(earlier, r)
    /\ Enter("A", 0, <<>>)
    /\ replaced' = [replaced EXCEPT !["A"] = FALSE]

\* The operation settles with res, the settled call "A" consumed.
QFinish(res) ==
    /\ qpc' = "done"
    /\ qres' = res
    /\ req' = NoReq
    /\ Consumed
    /\ UNCHANGED <<qop, qargs, qcat, qloc, qcalls>>

\* The caller has consumed the settled promise of the operation.
QReturn ==
    /\ qpc = "done"
    /\ qop' = "none"
    /\ qpc' = "idle"
    /\ qargs' = NoArgs
    /\ qloc' = NoLocals
    /\ qres' = QNone
    /\ qcat' = <<>>
    /\ qcalls' = <<>>
    /\ UNCHANGED <<poolVars, callVars, histVars, resolveVars, req, appVars>>

(***************************************************************************)
(* getChannelVideos                                                        *)
(***************************************************************************)
VideoIds(items) == [i \in 1..Len(items) |-> items[i].id]

ToVideoStat(item) ==
    [id |-> item.id, publishedAt |-> item.publishedAt, viewCount |-> item.viewCount,
     likeCount |-> item.likeCount, commentCount |-> item.commentCount]

\* `if (!videoIds)`: the joined id string is empty.
NoVideoIds_Never(ids) == FALSE

NoVideoIds(ids) == ids = <<>>

EmptyPage == [videos |-> <<>>, nextPageToken |-> NoToken]

PageResult_NoToken(videos, searchToken) == [videos |-> videos, nextPageToken |-> NoToken]

PageResult(videos, searchToken) == [videos |-> videos, nextPageToken |-> searchToken]

\* `.then(data => data.videos[0] || null)` of getNewestVideoInRange without a
\* range; null is the empty tuple, a video the tuple of it.
FirstOrNull_AlwaysNull(videos) == <<>>

FirstOrNull(videos) == IF Len(videos) > 0 THEN <<videos[1]>> ELSE <<>>

\* What the caller of getChannelVideos receives: the page itself, or, when
\* getNewestVideoInRange delegated, its first video.
VideosResult(via, page) ==
    IF via = "getNewestVideoInRange" THEN FirstOrNull(page.videos) ELSE page

\* getChannelVideos starts; args are the arguments of the call the caller
\* made (those of getNewestVideoInRange when that function delegated).
ChannelVideosBegin(args, cat) ==
    /\ qop = "none"
    /\ pc["A"] = "idle"
    /\ qop' = "getChannelVideos"
    /\ qpc' = "search"
    /\ qargs' = args
    /\ qloc' = NoLocals
    /\ qres' = QNone
    /\ qcat' = cat
    /\ QIssue(<<>>, SearchReq(args.maxResults, args.pageToken, FALSE))
    /\ UNCHANGED <<histVars, resolveVars, appVars>>

GetChannelVideos(via, maxResults, pageToken, cat) ==
    ChannelVideosBegin([NoArgs EXCEPT !.maxResults = maxResults, !.pageToken = pageToken,
                                      !.via = via], cat)

\* The search of getChannelVideos has settled.
ChannelVideosSearched ==
    /\ qop = "getChannelVideos"
    /\ qpc = "search"
    /\ pc["A"] = "done"
    /\ IF result["A"].kind # "ok"
       THEN QFinish(QErr(result["A"]))
       ELSE IF NoVideoIds(VideoIds(result["A"].data.items))
       THEN QFinish(QOk(VideosResult(qargs.via, EmptyPage)))
       ELSE /\ qpc' = "videos"
            /\ qloc' = [qloc EXCEPT !.nextPageToken = result["A"].data.nextPageToken]
            /\ QIssue(qcalls, VideosReq(VideoIds(result["A"].data.items)))
            /\ UNCHANGED <<qop, qargs, qres, qcat>>
    /\ UNCHANGED <<histVars, resolveVars, appVars>>

\* The statistics hydration of getChannelVideos has settled.
ChannelVideosHydrated ==
    /\ qop = "getChannelVideos"
    /\ qpc = "videos"
    /\ pc["A"] = "done"
    /\ IF result["A"].kind # "ok"
       THEN QFinish(QErr(result["A"]))
       ELSE QFinish(QOk(VideosResult(qargs.via,
                PageResult([i \in 1..Len(result["A"].data.items) |->
                                ToVideoStat(result["A"].data.items[i])],
                           qloc.nextPageToken))))
    /\ UNCHANGED <<histVars, resolveVars, appVars>>

\* `maxResults: '50'`, the most items of a page of the uploads collection or
\* of a ranged search.
BatchSize == 50

\* `new Date(publishedAt).getTime()`
GetTime(ts) == ts.day * DayUnits + ts.tod

\* The comparator of the sort of getOldestVideo.
Compare_Descending(a, b) == GetTime(b.publishedAt) - GetTime(a.publishedAt)

Compare(a, b) == GetTime(a.publishedAt) - GetTime(b.publishedAt)

\* Array.prototype.sort with Compare: a stable sort.
RECURSIVE SortedItems(_)
SortedItems(items) ==
    IF items = <<>> THEN <<>>
    ELSE LET rest == SortedItems(SubSeq(items, 1, Len(items) - 1))
             x == items[Len(items)]
             k == Cardinality({i \in DOMAIN rest : Compare(rest[i], x) <= 0})
         IN SubSeq(rest, 1, k) \o <<x>> \o SubSeq(rest, k + 1, Len(rest))

\* null
Null == <<>>

\* The VideoStat built from a snippet alone: the counts are '0'.
SnippetStat(item) ==
    [id |-> item.id, publishedAt |-> item.publishedAt, viewCount |-> <<"0">>,
     likeCount |-> <<"0">>, commentCount |-> <<"0">>]

\* The catch block of getOldestVideo.
OldestVideoCaught_Rethrow(err) == QErr(err)

OldestVideoCaught(err) == QOk(Null)

\* getOldestVideo starts; args are the arguments of the call the caller made
\* (those of getOldestVideoInRange when that function delegated).
OldestVideoBegin(args, cat) ==
    /\ qop = "none"
    /\ pc["A"] = "idle"
    /\ qop' = "getOldestVideo"
    /\ qpc' = "playlist"
    /\ qargs' = args
    /\ qloc' = NoLocals
    /\ qres' = QNone
    /\ qcat' = cat
    /\ QIssue(<<>>, PlaylistReq(BatchSize, NoToken))
    /\ UNCHANGED <<histVars, resolveVars, appVars>>

GetOldestVideo(via, cat) ==
    OldestVideoBegin([NoArgs EXCEPT !.maxResults = BatchSize, !.via = via], cat)

\* The playlistItems call of getOldestVideo has settled.
OldestVideoFetched ==
    /\ qop = "getOldestVideo"
    /\ qpc = "playlist"
    /\ pc["A"] = "done"
    /\ IF result["A"].kind # "ok"
       THEN QFinish(OldestVideoCaught(result["A"]))
       ELSE IF Len(result["A"].data.items) = 0
       THEN QFinish(QOk(Null))
       ELSE QFinish(QOk(<<SnippetStat(SortedItems(result["A"].data.items)[1])>>))
    /\ UNCHANGED <<histVars, resolveVars, appVars>>

\* The decimal digits, and parseInt(s, 10) and String(n) over them (StringOf).
Digits == <<"0", "1", "2", "3", "4", "5", "6", "7", "8", "9">>

DigitValue(ch) == CHOOSE d \in 0..9 : Digits[d + 1] = ch

RECURSIVE ParseInt(_)
ParseInt(s) ==
    IF Len(s) = 1 THEN DigitValue(s[1])
    ELSE ParseInt(SubSeq(s, 1, Len(s) - 1)) * 10 + DigitValue(s[Len(s)])

RECURSIVE StringOf(_)
StringOf(n) ==
    IF n < 10 THEN <<Digits[n + 1]>>
    ELSE StringOf(n \div 10) \o <<Digits[(n % 10) + 1]>>

\* Number.prototype.toFixed(1) of number / unit, for the integers formatNumber
\* divides by 1000 or 1000000.  The quotient is a double: where it lies
\* halfway between two tenths in decimal (a / 20 with a odd), the double is
\* that value itself only when 5 divides a, and toFixed then takes the larger
\* tenth; otherwise the nearest double lies above or below it by the remainder
\* of a * 2^(50 - e) modulo 5, e being the binary exponent of the quotient.
Pow2Mod5(k) == <<1, 2, 4, 3>>[(k % 4) + 1]

RECURSIVE BinaryExponent(_, _)
BinaryExponent(num, den) ==
    IF 2 * den > num THEN 0 ELSE 1 + BinaryExponent(num, 2 * den)

TieRoundsUp(a) ==
    \/ a % 5 = 0
    \/ ((a % 5) * Pow2Mod5(50 - BinaryExponent(a, 20))) % 5 \in {3, 4}

ToFixed1(number, unit) ==
    LET lo == (10 * number) \div unit
        rem == (10 * number) % unit
        up == IF 2 * rem = unit THEN TieRoundsUp(2 * lo + 1) ELSE 2 * rem > unit
        t == IF up THEN lo + 1 ELSE lo
    IN  StringOf(t \div 10) \o <<".", Digits[(t % 10) + 1]>>

\* `.replace(/\.0$/, '')`
StripTrailingZero_Keep(s) == s

StripTrailingZero(s) ==
    IF Len(s) >= 2 /\ SubSeq(s, Len(s) - 1, Len(s)) = <<".", "0">>
    THEN SubSeq(s, 1, Len(s) - 2)
    ELSE s

\* formatNumber of a non-negative integer (a number, so neither the parseInt
\* of a string argument nor the NaN return is taken).
FormatNumber(number) ==
    IF number >= 1000000
    THEN StripTrailingZero(ToFixed1(number, 1000000)) \o <<"M">>
    ELSE IF number >= 1000
    THEN StripTrailingZero(ToFixed1(number, 1000)) \o <<"K">>
    ELSE StringOf(number)

\* `item.statistics.viewCount || '0'`
OrZero(s) == IF s = Absent THEN <<"0">> ELSE s

\* The forEach of getChannelStatsForDateRange over the items of one page.
RECURSIVE PageViews(_)
PageViews(items) ==
    IF items = <<>> THEN 0
    ELSE PageViews(SubSeq(items, 1, Len(items) - 1))
         + ParseInt(OrZero(items[Len(items)].viewCount))

\* `while (nextPageToken)`
MorePages_Never(tok) == FALSE

MorePages(tok) == tok # NoToken

\* An awaited fetchYouTubeAPI call outside any try block rejects: the
\* operation rejects with the same error.
Propagate_AsNull(err) == QOk(Null)

Propagate(err) == QErr(err)

\* The instants a date range is made of, and the ranges a caller gives.
Instants == {[day |-> d, tod |-> t] : d \in 1..2, t \in {0, DayUnits - 1}}

Ranges == {r \in [start : Instants, end : Instants] : GetTime(r.start) <= GetTime(r.end)}

\* `publishedAtTime >= startDateTime && publishedAtTime <= endDateTime`
InRange_Exclusive(ts, start, end) ==
    GetTime(ts) > GetTime(start) /\ GetTime(ts) < GetTime(end)

InRange(ts, start, end) == GetTime(ts) >= GetTime(start) /\ GetTime(ts) <= GetTime(end)

\* The item the for loop of getOldestVideoInRange returns out of one page:
\* the first inside the range, or none.
FirstInRange_Earliest(items, start, end) ==
    LET hits == SelectSeq(SortedItems(items), LAMBDA it : InRange(it.publishedAt, start, end))
    IN IF hits = <<>> THEN <<>> ELSE <<hits[1]>>

FirstInRange(items, start, end) ==
    LET hits == SelectSeq(items, LAMBDA it : InRange(it.publishedAt, start, end))
    IN IF hits = <<>> THEN <<>> ELSE <<hits[1]>>

GetNewestVideoInRange(cat) ==
    /\ qop = "none"
    /\ pc["A"] = "idle"
    /\ qop' = "getNewestVideoInRange"
    /\ qpc' = "search"
    /\ qargs' = [NoArgs EXCEPT !.maxResults = 1, !.ranged = TRUE]
    /\ qloc' = NoLocals
    /\ qres' = QNone
    /\ qcat' = cat
    /\ QIssue(<<>>, SearchReq(1, NoToken, TRUE))
    /\ UNCHANGED <<histVars, resolveVars, appVars>>

\* The search of getNewestVideoInRange has settled.
NewestVideoSearched ==
    /\ qop = "getNewestVideoInRange"
    /\ qpc = "search"
    /\ pc["A"] = "done"
    /\ IF result["A"].kind # "ok"
       THEN QFinish(Propagate(result["A"]))
       ELSE IF Len(result["A"].data.items) = 0
       THEN QFinish(QOk(Null))
       ELSE QFinish(QOk(<<SnippetStat(result["A"].data.items[1])>>))
    /\ UNCHANGED <<histVars, resolveVars, appVars>>

GetChannelStatsForDateRange(cat) ==
    /\ qop = "none"
    /\ pc["A"] = "idle"
    /\ qop' = "getChannelStatsForDateRange"
    /\ qpc' = "search"
    /\ qargs' = [NoArgs EXCEPT !.maxResults = BatchSize, !.ranged = TRUE]
    /\ qloc' = NoLocals
    /\ qres' = QNone
    /\ qcat' = cat
    /\ QIssue(<<>>, SearchReq(BatchSize, NoToken, TRUE))
    /\ UNCHANGED <<histVars, resolveVars, appVars>>

\* The end of one round of the do/while of getChannelStatsForDateRange.
StatsLoop(views, videos, tok) ==
    IF MorePages(tok)
    THEN /\ qpc' = "search"
         /\ qloc' = [nextPageToken |-> tok, totalViews |-> views, totalVideos |-> videos]
         /\ QIssue(qcalls, SearchReq(BatchSize, tok, TRUE))
         /\ UNCHANGED <<qop, qargs, qres, qcat>>
    ELSE QFinish(QOk([viewCount |-> StringOf(views), videoCount |-> StringOf(videos)]))

\* A search of getChannelStatsForDateRange has settled.
StatsSearched ==
    /\ qop = "getChannelStatsForDateRange"
    /\ qpc = "search"
    /\ pc["A"] = "done"
    /\ IF result["A"].kind # "ok"
       THEN QFinish(Propagate(result["A"]))
       ELSE IF ~NoVideoIds(VideoIds(result["A"].data.items))
       THEN /\ qpc' = "videos"
            /\ qloc' = [qloc EXCEPT !.nextPageToken = result["A"].data.nextPageToken]
            /\ QIssue(qcalls, VideosReq(VideoIds(result["A"].data.items)))
            /\ UNCHANGED <<qop, qargs, qres, qcat>>
       ELSE StatsLoop(qloc.totalViews, qloc.totalVideos, result["A"].data.nextPageToken)
    /\ UNCHANGED <<histVars, resolveVars, appVars>>

\* A statistics call of getChannelStatsForDateRange has settled.
StatsHydrated ==
    /\ qop = "getChannelStatsForDateRange"
    /\ qpc = "videos"
    /\ pc["A"] = "done"
    /\ IF result["A"].kind # "ok"
       THEN QFinish(Propagate(result["A"]))
       ELSE StatsLoop(qloc.totalViews + PageViews(result["A"].data.items),
                      qloc.totalVideos + Len(result["A"].data.items),
                      qloc.nextPageToken)
    /\ UNCHANGED <<histVars, resolveVars, appVars>>

GetOldestVideoInRange(cat, start, end) ==
    /\ qop = "none"
    /\ pc["A"] = "idle"
    /\ qop' = "getOldestVideoInRange"
    /\ qpc' = "playlist"
    /\ qargs' = [NoArgs EXCEPT !.maxResults = BatchSize, !.ranged = TRUE,
                               !.start = start, !.end = end]
    /\ qloc' = NoLocals
    /\ qres' = QNone
    /\ qcat' = cat
    /\ QIssue(<<>>, PlaylistReq(BatchSize, NoToken))
    /\ UNCHANGED <<histVars, resolveVars, appVars>>

\* A playlistItems call of getOldestVideoInRange has settled.
OldestInRangeFetched ==
    /\ qop = "getOldestVideoInRange"
    /\ qpc = "playlist"
    /\ pc["A"] = "done"
    /\ IF result["A"].kind # "ok"
       THEN QFinish(Propagate(result["A"]))
       ELSE LET hit == FirstInRange(result["A"].data.items, qargs.start, qargs.end)
                tok == result["A"].data.nextPageToken
            IN IF hit # <<>>
               THEN QFinish(QOk(<<SnippetStat(hit[1])>>))
               ELSE IF MorePages(tok)
               THEN /\ qloc' = [qloc EXCEPT !.nextPageToken = tok]
                    /\ QIssue(qcalls, PlaylistReq(BatchSize, tok))
                    /\ UNCHANGED <<qop, qpc, qargs, qres, qcat>>
               ELSE QFinish(QOk(Null))
    /\ UNCHANGED <<histVars, resolveVars, appVars>>

\* A date argument left out: `undefined` (or the empty string).
NoDate == [day |-> 0, tod |-> 0]

\* `!startDate || !endDate`
MissingBound_Both(start, end) == start = NoDate /\ end = NoDate

MissingBound(start, end) == start = NoDate \/ end = NoDate

\* getOldestVideoInRange(playlistId, startDate?, endDate?), either date
\* possibly left out.
OldestVideoInRange(cat, start, end) ==
    IF MissingBound(start, end)
    THEN OldestVideoBegin([NoArgs EXCEPT !.maxResults = BatchSize,
                                         !.via = "getOldestVideoInRange",
                                         !.start = start, !.end = end], cat)
    ELSE GetOldestVideoInRange(cat, start, end)

\* getNewestVideoInRange(channelId, startDate?, endDate?), either date
\* possibly left out.
NewestVideoInRange(cat, start, end) ==
    IF MissingBound(start, end)
    THEN ChannelVideosBegin([NoArgs EXCEPT !.maxResults = 1,
                                           !.via = "getNewestVideoInRange",
                                           !.start = start, !.end = end], cat)
    ELSE GetNewestVideoInRange(cat)

(***************************************************************************)
(* The App component: its state, the load effect and the handlers that     *)
(* change the persisted state.                                             *)
(***************************************************************************)
\* useState<number>(12)
DefaultVideosPerPage == 12

\* The page sizes offered to the user.
VideosPerPageChoices == {12, 24}

\* NaN, the value of parseInt on a text that does not start with a digit.
NaN == -1

\* DEFAULT_API_KEYS: five keys, none of them a key the user enters.
DEFAULT_API_KEYS == <<101, 102, 103, 104, 105>>

\* A tracked channel: the ChannelStats of getChannelStats.
ChannelStatsOf(id) == [id |-> id, viewCount |-> <<"9">>, videoCount |-> <<"2">>]

ChannelLists ==
    {<<>>, <<ChannelStatsOf(ChannelX)>>, <<ChannelStatsOf(ChannelX), ChannelStatsOf(ChannelY)>>}

GroupIds == {"group-1", "group-2"}

Group(id, channelIds) == [id |-> id, name |-> "name", channelIds |-> channelIds]

\* The channel selections of the group dialog.
Selections == {<<>>, <<ChannelX>>, <<ChannelX, ChannelY>>}

\* String(newValue), and parseInt(text, 10) of a stored item.
NumberText(n) == [kind |-> "number", whole |-> TRUE, items |-> StringOf(n)]

ParseIntItem(item) == IF item.kind = "number" THEN ParseInt(item.items) ELSE NaN

\* What localStorage can hold when the page is opened.
StoredKeys ==
    {NoItem, ObjectText, Malformed(<<1>>)} \cup {Stringify(keys) : keys \in DistinctPools}

StoredChannels == {NoItem, Malformed(<<>>)} \cup {Stringify(l) : l \in ChannelLists}

StoredGroups ==
    {NoItem, Malformed(<<>>), Stringify(<<>>), Stringify(<<Group("group-1", <<ChannelX>>)>>),
     Stringify(<<Group("group-1", <<ChannelX, ChannelY>>)>>)}

StoredVideosPerPage == {NoItem, Malformed(<<>>), NumberText(24)}

Stores ==
    {[k \in StoreKeys |->
        CASE k = ApiKeysItem -> a
          [] k = ChannelsItem -> c
          [] k = GroupsItem -> g
          [] OTHER -> v] :
        a \in StoredKeys, c \in StoredChannels, g \in StoredGroups,
        v \in StoredVideosPerPage}

\* The load effect reads the keys in this order inside one try block: the
\* first JSON.parse that throws ends it.
KeysLoaded == ~(Saved(storage[ApiKeysItem]) /\ ParseThrows(storage[ApiKeysItem]))

ChannelsLoaded ==
    KeysLoaded /\ ~(Saved(storage[ChannelsItem]) /\ ParseThrows(storage[ChannelsItem]))

GroupsLoaded ==
    ChannelsLoaded /\ ~(Saved(storage[GroupsItem]) /\ ParseThrows(storage[GroupsItem]))

\* `Array.isArray(parsedKeys) && parsedKeys.length > 0`
UsableKeys(item) == IsArray(item) /\ Len(Parse(item)) > 0

\* `savedApiKeys ? JSON.parse(savedApiKeys) : DEFAULT_API_KEYS`, then the test.
LoadedKeys ==
    IF Saved(storage[ApiKeysItem]) /\ UsableKeys(storage[ApiKeysItem])
    THEN Parse(storage[ApiKeysItem])
    ELSE DEFAULT_API_KEYS

\* The page is opened: the module and the component start from their initial
\* values and the load effect runs.
Startup ==
    /\ isLoading' = FALSE
    /\ IF KeysLoaded
       THEN /\ apiKeysState' = LoadedKeys
            /\ SetApiKeys(LoadedKeys)
            /\ isSettingsOpen' =
                  (Saved(storage[ApiKeysItem]) /\ ~UsableKeys(storage[ApiKeysItem]))
       ELSE /\ apiKeysState' = <<>>
            /\ apiKeys' = <<>>
            /\ currentKeyIndex' = 0
            /\ isSettingsOpen' = FALSE
    /\ trackedChannels' =
          IF ChannelsLoaded /\ Saved(storage[ChannelsItem])
          THEN Parse(storage[ChannelsItem]) ELSE <<>>
    /\ channelGroups' =
          IF GroupsLoaded /\ Saved(storage[GroupsItem])
          THEN Parse(storage[GroupsItem]) ELSE <<>>
    /\ videosPerPage' =
          IF GroupsLoaded /\ Saved(storage[VideosPerPageItem])
          THEN ParseIntItem(storage[VideosPerPageItem]) ELSE DefaultVideosPerPage
    /\ appError' = IF GroupsLoaded THEN "" ELSE "Could not load saved settings."
    /\ pc' = [c \in Calls |-> "idle"]
    /\ attempt' = [c \in Calls |-> 0]
    /\ apiKey' = [c \in Calls |-> 0]
    /\ result' = [c \in Calls |-> NoResult]
    /\ raised' = [c \in Calls |-> NoResult]
    /\ log' = [c \in Calls |-> <<>>]
    /\ replaced' = [c \in Calls |-> FALSE]
    /\ rpc' = "idle"
    /\ rid' = <<>>
    /\ rresult' = NoResult
    /\ rcalls' = 0
    /\ rattempts' = <<>>
    /\ qop' = "none"
    /\ qpc' = "idle"
    /\ qargs' = NoArgs
    /\ qloc' = NoLocals
    /\ qres' = QNone
    /\ qcat' = <<>>
    /\ req' = NoReq
    /\ qcalls' = <<>>
    /\ view' = "multi"
    /\ comparisonData' = <<>>
    /\ isLoadingComparison' = FALSE
    /\ selectedGroup' = <<>>
    /\ comparisonDateRange' = <<>>
    /\ gpc' = "idle"
    /\ gchannels' = <<>>
    /\ gjobs' = <<>>
    /\ gfetch' = <<>>
    /\ isAddingChannel' = FALSE
    /\ apc' = "idle"
    /\ channelInput' = <<>>
    /\ aidx' = 0
    /\ anew' = <<>>
    /\ aerrors' = <<>>
    /\ aclosure' = <<>>
    /\ alog' = <<>>
    /\ selectedChannel' = <<>>
    /\ isLoadingVideos' = FALSE
    /\ isLoadingMore' = FALSE
    /\ spc' = "idle"
    /\ sfor' = <<>>
    /\ lpc' = "idle"
    /\ lfor' = <<>>
    /\ sortOrder' = "date"
    /\ UNCHANGED <<storage, histVars, formatVars>>

HandleVideosPerPageChange(newValue) ==
    /\ videosPerPage' = newValue
    /\ storage' = [storage EXCEPT ![VideosPerPageItem] = NumberText(newValue)]
    /\ UNCHANGED <<apiKeysState, trackedChannels, channelGroups, appError, isLoading,
                   isSettingsOpen>>
    /\ UNCHANGED <<poolVars, callVars, histVars, resolveVars, queryVars, groupVars, addVars,
                    singleVars, formatVars>>

\* Array.prototype.filter
Filter(list, Keep1(_)) == SelectSeq(list, Keep1)

HandleRemoveChannel(channelId) ==
    LET updatedChannels == Filter(trackedChannels, LAMBDA c : c.id # channelId)
        updatedGroups ==
            [i \in DOMAIN channelGroups |->
                [channelGroups[i] EXCEPT
                    !.channelIds = Filter(@, LAMBDA id : id # channelId)]]
    IN /\ trackedChannels' = updatedChannels
       /\ channelGroups' = updatedGroups
       /\ storage' = [storage EXCEPT ![ChannelsItem] = Stringify(updatedChannels),
                                     ![GroupsItem] = Stringify(updatedGroups)]
       /\ UNCHANGED <<apiKeysState, videosPerPage, appError, isLoading, isSettingsOpen>>
       /\ UNCHANGED <<poolVars, callVars, histVars, resolveVars, queryVars, groupVars, addVars,
                    singleVars, formatVars>>

\* handleSaveGroup with groupData.id: an existing group is edited.
HandleSaveGroupEdit(id, channelIds) ==
    LET updatedGroups ==
            [i \in DOMAIN channelGroups |->
                IF channelGroups[i].id = id
                THEN [channelGroups[i] EXCEPT !.name = "name", !.channelIds = channelIds]
                ELSE channelGroups[i]]
    IN /\ channelGroups' = updatedGroups
       /\ storage' = [storage EXCEPT ![GroupsItem] = Stringify(updatedGroups)]
       /\ UNCHANGED <<apiKeysState, trackedChannels, videosPerPage, appError, isLoading,
                      isSettingsOpen>>
       /\ UNCHANGED <<poolVars, callVars, histVars, resolveVars, queryVars, groupVars, addVars,
                    singleVars, formatVars>>

\* handleSaveGroup without groupData.id: a group is made, newId is
\* `group-${Date.now()}`.
HandleSaveGroupNew(newId, channelIds) ==
    LET updatedGroups == Append(channelGroups, Group(newId, channelIds))
    IN /\ channelGroups' = updatedGroups
       /\ storage' = [storage EXCEPT ![GroupsItem] = Stringify(updatedGroups)]
       /\ UNCHANGED <<apiKeysState, trackedChannels, videosPerPage, appError, isLoading,
                      isSettingsOpen>>
       /\ UNCHANGED <<poolVars, callVars, histVars, resolveVars, queryVars, groupVars, addVars,
                    singleVars, formatVars>>

HandleDeleteGroup(groupId) ==
    LET updatedGroups == Filter(channelGroups, LAMBDA g : g.id # groupId)
    IN /\ channelGroups' = updatedGroups
       /\ storage' = [storage EXCEPT ![GroupsItem] = Stringify(updatedGroups)]
       /\ UNCHANGED <<apiKeysState, trackedChannels, videosPerPage, appError, isLoading,
                      isSettingsOpen>>
       /\ UNCHANGED <<poolVars, callVars, histVars, resolveVars, queryVars, groupVars, addVars,
                    singleVars, formatVars>>

(***************************************************************************)
(* handleSelectGroup.  Each of the three promises of a channel is a query  *)
(* operation; here an operation is what its fetching comes to (a value,    *)
(* or the error of a fetchYouTubeAPI call) and what the operation makes of *)
(* that, as modelled above.  A rejection reaches the catch block of the    *)
(* handler through the two Promise.all in the same turn of the event loop. *)
(***************************************************************************)
GroupOps == {"newest", "oldest", "stats"}

\* The date ranges of the filter, as <input type="date"> gives them; <<>> is null.
DateRanges == {<<>>, <<[start |-> [day |-> 1, tod |-> 0], end |-> [day |-> 2, tod |-> 0]]>>}

\* What the fetching of an operation comes to.
FetchValues(op) ==
    CASE op = "newest" -> {Null, <<SnippetStat(V1)>>}
      [] op = "oldest" -> {Null, <<SnippetStat(V2)>>}
      [] OTHER -> {<<[viewCount |-> <<"7">>, videoCount |-> <<"1">>]>>}

FetchErrors ==
    {TransportError, UpstreamError([reason |-> "forbidden"]), AllKeysFailed(MaxPool)}

\* What the operation settles to when a fetchYouTubeAPI call of it fails with
\* err: getOldestVideoInRange without a range is getOldestVideo, which catches;
\* getNewestVideoInRange without a range is getChannelVideos, which does not.
OnFetchError_OldestRethrows(op, ranged, err) == QErr(err)

OnFetchError(op, ranged, err) ==
    IF op = "oldest" /\ ~ranged THEN OldestVideoCaught(err)
    ELSE IF op = "newest" /\ ~ranged THEN QErr(err)
    ELSE Propagate(err)

\* `err.message || fallback`
OrDefault_Fallback(message, fallback) == fallback

MessageOf(err) == IF err.kind = "UpstreamRequestFailed" THEN err.message ELSE err.kind

OrDefault(message, fallback) == IF message = "" THEN fallback ELSE message

\* The ChannelComparisonData of one channel.
ComparisonEntry(channel, jobs) ==
    [id |-> channel.id,
     viewCount |-> IF jobs.stats.value # Null
                   THEN jobs.stats.value[1].viewCount ELSE channel.viewCount,
     videoCount |-> IF jobs.stats.value # Null
                    THEN jobs.stats.value[1].videoCount ELSE channel.videoCount,
     newestVideo |-> jobs.newest.value,
     oldestVideo |-> jobs.oldest.value]

\* channelGroups.find(g => g.id === groupId): the positions that match.
GroupsWithId(groupId) == {i \in DOMAIN channelGroups : channelGroups[i].id = groupId}

HandleSelectGroup(groupId, dateRange) ==
    /\ gpc = "idle"
    /\ GroupsWithId(groupId) # {}
    /\ LET group == channelGroups[CHOOSE i \in GroupsWithId(groupId) :
                                     \A j \in GroupsWithId(groupId) : i <= j]
           groupChannels ==
               Filter(trackedChannels, LAMBDA c : c.id \in Range(group.channelIds))
       IN /\ appError' = ""
          /\ selectedGroup' = <<group>>
          /\ comparisonData' = <<>>
          /\ comparisonDateRange' = dateRange
          /\ gchannels' = groupChannels
          /\ gjobs' = [i \in DOMAIN groupChannels |->
                          [newest |-> QNone, oldest |-> QNone,
                           stats |-> IF dateRange = <<>> THEN QOk(Null) ELSE QNone]]
          /\ gfetch' = [i \in DOMAIN groupChannels |->
                           [newest |-> "none", oldest |-> "none", stats |-> "none"]]
          /\ IF groupChannels = <<>>
             THEN /\ gpc' = "idle"
                  /\ isLoadingComparison' = FALSE
             ELSE /\ gpc' = "awaiting"
                  /\ isLoadingComparison' = TRUE
          /\ view' = "comparison"
    /\ UNCHANGED <<storage, apiKeysState, trackedChannels, channelGroups, videosPerPage,
                   isLoading, isSettingsOpen, addVars, singleVars,
                   formatVars>>
    /\ UNCHANGED <<poolVars, callVars, histVars, resolveVars, queryVars>>

AllFulfilled_Never(jobs) == FALSE

AllFulfilled(jobs) ==
    \A i \in DOMAIN jobs : \A op \in GroupOps : jobs[i][op].kind = "ok"

\* The promise op of channel i settles with outcome; how says how its
\* fetching went.
JobSettles(i, op, outcome, how) ==
    /\ i \in DOMAIN gjobs
    /\ gjobs[i][op].kind = "none"
    /\ gjobs' = [gjobs EXCEPT ![i][op] = outcome]
    /\ gfetch' = [gfetch EXCEPT ![i][op] = how]
    /\ IF gpc = "awaiting" /\ outcome.kind = "error"
       THEN /\ appError' = OrDefault(MessageOf(outcome.error),
                                     "An error occurred while fetching comparison data.")
            /\ view' = "multi"
            /\ isLoadingComparison' = FALSE
            /\ gpc' = "idle"
            /\ UNCHANGED comparisonData
       ELSE IF gpc = "awaiting" /\ AllFulfilled(gjobs')
       THEN /\ comparisonData' =
                  [k \in DOMAIN gchannels |-> ComparisonEntry(gchannels[k], gjobs'[k])]
            /\ isLoadingComparison' = FALSE
            /\ gpc' = "idle"
            /\ UNCHANGED <<appError, view>>
       ELSE UNCHANGED <<appError, view, isLoadingComparison, gpc, comparisonData>>
    /\ UNCHANGED <<storage, apiKeysState, trackedChannels, channelGroups, videosPerPage,
                   isLoading, isSettingsOpen, selectedGroup, comparisonDateRange,
                   gchannels, addVars, singleVars, formatVars>>
    /\ UNCHANGED <<poolVars, callVars, histVars, resolveVars, queryVars>>

\* The fetching of the operation succeeds.
JobFetched(i, op, value) == JobSettles(i, op, QOk(value), "ok")

\* A fetchYouTubeAPI call of the operation fails.
JobFetchFails(i, op, err) ==
    JobSettles(i, op, OnFetchError(op, comparisonDateRange # <<>>, err), "failed")

(***************************************************************************)
(* extractChannelId.  A regular expression without anchors matches at the  *)
(* leftmost position where it can; `+` takes the longest run.              *)
(***************************************************************************)
Letters ==
    {"a", "b", "c", "d", "e", "f", "g", "h", "i", "j", "k", "l", "m", "n", "o", "p", "q",
     "r", "s", "t", "u", "v", "w", "x", "y", "z", "A", "B", "C", "D", "E", "F", "G", "H",
     "I", "J", "K", "L", "M", "N", "O", "P", "Q", "R", "S", "T", "U", "V", "W", "X", "Y",
     "Z"}

\* [a-zA-Z0-9_-] and [a-zA-Z0-9_.-]
IdChars == Letters \cup Range(Digits) \cup {"_", "-"}
HandleChars == IdChars \cup {"."}

\* String.prototype.trim, the white space of the model being the blank.
RECURSIVE Trim(_)
Trim(s) ==
    IF s = <<>> THEN s
    ELSE IF Head(s) = " " THEN Trim(Tail(s))
    ELSE IF s[Len(s)] = " " THEN Trim(SubSeq(s, 1, Len(s) - 1))
    ELSE s

\* The literal lit stands in s at position p.
LiteralAt(s, p, lit) ==
    /\ p + Len(lit) - 1 <= Len(s)
    /\ \A i \in 1..Len(lit) : s[p + i - 1] = lit[i]

\* The length of the longest run of characters of class in s from position p.
RunLength(s, p, class) ==
    CHOOSE n \in 0..(Len(s) - p + 1) :
        /\ \A i \in p..(p + n - 1) : s[i] \in class
        /\ (p + n <= Len(s) => s[p + n] \notin class)

\* match[1] of /lit(class{exact})/ when exact > 0, of /lit(class+)/ when
\* exact = 0; <<>> when there is no match.
Group1(s, lit, class, exact) ==
    LET after(p) == p + Len(lit)
        least == IF exact > 0 THEN exact ELSE 1
        starts == {p \in 1..Len(s) :
                      LiteralAt(s, p, lit) /\ RunLength(s, after(p), class) >= least}
    IN IF starts = {} THEN <<>>
       ELSE LET p == CHOOSE q \in starts : \A r \in starts : q <= r
                n == IF exact > 0 THEN exact ELSE RunLength(s, after(p), class)
            IN <<SubSeq(s, after(p), after(p) + n - 1)>>

YouTubeCom == <<"y", "o", "u", "t", "u", "b", "e", ".", "c", "o", "m", "/">>

\* The six patterns in order; anchored ones take the whole input.
PatternMatch(s, k) ==
    CASE k = 1 -> Group1(s, YouTubeCom \o <<"c", "h", "a", "n", "n", "e", "l", "/">>, IdChars, 24)
      [] k = 2 -> Group1(s, YouTubeCom \o <<"c", "/">>, IdChars, 0)
      [] k = 3 -> Group1(s, YouTubeCom \o <<"u", "s", "e", "r", "/">>, IdChars, 0)
      [] k = 4 -> Group1(s, YouTubeCom \o <<"@">>, HandleChars, 0)
      [] k = 5 -> IF Len(s) = 24 /\ Range(s) \subseteq IdChars THEN <<s>> ELSE <<>>
      [] OTHER -> IF Len(s) > 1 /\ s[1] = "@" /\ Range(Tail(s)) \subseteq HandleChars
                  THEN <<Tail(s)>> ELSE <<>>

\* extractChannelId(input): <<>> is null, <<id>> the identifier found.
ExtractChannelId(input) ==
    IF input = <<>> THEN Null
    ELSE LET trimmedInput == Trim(input)
             matching == {k \in 1..6 : PatternMatch(trimmedInput, k) # <<>>}
         IN IF matching # {}
            THEN PatternMatch(trimmedInput, CHOOSE k \in matching : \A j \in matching : k <= j)
            ELSE IF "/" \notin Range(trimmedInput) /\ ~StartsWith(trimmedInput, <<"U", "C">>)
            THEN <<trimmedInput>>
            ELSE Null

(***************************************************************************)
(* getChannelStats, a query operation over resolveChannelId and one        *)
(* `channels` call.                                                        *)
(***************************************************************************)
ChannelsReq(id) == [NoReq EXCEPT !.endpoint = "channels", !.ids = <<id>>]

\* What upstream answers to the `channels` call for id: the channel, or nothing.
ChannelsResponses(id) ==
    {[type |-> "ok", reason |-> "", items |-> it] : it \in {<<>>, <<id>>}}
    \cup {[type |-> "httpError", reason |-> r, items |-> <<>>] : r \in Reasons}
    \cup {[type |-> "networkError", reason |-> "", items |-> <<>>]}

\* `throw new Error('Channel not found.')`
StatsNotFound == [ChannelNotFound EXCEPT !.message = "Channel not found."]

\* getChannelStats(id) up to its first await.
GetChannelStatsBegin(id) ==
    /\ qop' = "getChannelStats"
    /\ qpc' = "resolve"
    /\ qargs' = NoArgs
    /\ qloc' = NoLocals
    /\ qres' = QNone
    /\ qcat' = <<>>
    /\ req' = NoReq
    /\ qcalls' = <<>>
    /\ ResolveBegin(id)

\* resolveChannelId has settled: the `channels` call, or its error passed on.
StatsResolved ==
    /\ qop = "getChannelStats"
    /\ qpc = "resolve"
    /\ rpc = "done"
    /\ rpc' = "idle"
    /\ rid' = <<>>
    /\ rresult' = NoResult
    /\ rcalls' = 0
    /\ rattempts' = <<>>
    /\ IF rresult.kind = "ok"
       THEN /\ qpc' = "channels"
            /\ QIssue(qcalls, ChannelsReq(rresult.data))
            /\ UNCHANGED qres
       ELSE /\ qpc' = "done"
            /\ qres' = QErr(rresult)
            /\ UNCHANGED <<poolVars, callVars, req, qcalls>>
    /\ UNCHANGED <<qop, qargs, qloc, qcat, histVars, appVars>>

\* The `channels` call has settled.
ChannelsFetched ==
    /\ qop = "getChannelStats"
    /\ qpc = "channels"
    /\ pc["A"] = "done"
    /\ QFinish(IF result["A"].kind # "ok" THEN QErr(result["A"])
               ELSE IF Len(result["A"].data) = 0 THEN QErr(StatsNotFound)
               ELSE QOk(ChannelStatsOf(result["A"].data[1])))
    /\ UNCHANGED <<histVars, resolveVars, appVars>>

(***************************************************************************)
(* handleAddChannel.  channelInput is the pasted text as its lines; alog   *)
(* is the history of the handler: for each identifier, by its position in  *)
(* `identifiers`, what the loop did with it.                               *)
(***************************************************************************)
\* `.filter(Boolean)` on the trimmed lines
NonBlank_All(line) == TRUE

NonBlank(line) == line # <<>>

\* channelInput.split('\n').map(s => s.trim()).filter(Boolean)
IdentifiersOf(lines) == Filter([i \in DOMAIN lines |-> Trim(lines[i])], NonBlank)

\* The two kinds of entries of `errors`.
InvalidEntry(identifier) ==
    [identifier |-> identifier, kind |-> "InvalidIdentifierFormat",
     text |-> "Invalid format"]

ErrorEntry_First(identifiers, k, err) ==
    [identifier |-> identifiers[1], kind |-> err.kind,
     text |-> OrDefault(MessageOf(err), "An unknown error occurred.")]

ErrorEntry(identifiers, k, err) ==
    [identifier |-> identifiers[k], kind |-> err.kind,
     text |-> OrDefault(MessageOf(err), "An unknown error occurred.")]

Event(k, what) == [index |-> k, event |-> what]

\* The loop from identifier k on, as far as it goes without a fetch.
RECURSIVE SkipInvalid(_, _, _, _)
SkipInvalid(identifiers, k, errors, lg) ==
    IF k > Len(identifiers) \/ ExtractChannelId(identifiers[k]) # Null
    THEN [k |-> k, errors |-> errors, log |-> lg]
    ELSE SkipInvalid(identifiers, k + 1, Append(errors, InvalidEntry(identifiers[k])),
                     Append(lg, Event(k, "invalid")))

\* The handler from identifier k of the loop to its next await or to its end;
\* shown is the error on display.
AddChannelLoop(identifiers, k, newChannels, errors, lg, closure, shown) ==
    \E s \in {SkipInvalid(identifiers, k, errors, lg)} :
       /\ anew' = newChannels
       /\ aerrors' = s.errors
       /\ aclosure' = closure
       /\ IF s.k <= Len(identifiers)
          THEN /\ GetChannelStatsBegin(ExtractChannelId(identifiers[s.k])[1])
               /\ aidx' = s.k
               /\ alog' = Append(s.log, Event(s.k, "fetch"))
               /\ apc' = "awaiting"
               /\ isAddingChannel' = TRUE
               /\ appError' = shown
               /\ UNCHANGED <<trackedChannels, storage>>
          ELSE /\ IF newChannels # <<>>
                  THEN /\ trackedChannels' = closure \o newChannels
                       /\ storage' = [storage EXCEPT
                              ![ChannelsItem] = Stringify(closure \o newChannels)]
                  ELSE UNCHANGED <<trackedChannels, storage>>
               /\ appError' = IF s.errors # <<>> THEN "Could not add all channels:" ELSE shown
               /\ isAddingChannel' = FALSE
               /\ apc' = "idle"
               /\ aidx' = 0
               /\ alog' = s.log
               /\ qop' = "none"
               /\ qpc' = "idle"
               /\ qargs' = NoArgs
               /\ qloc' = NoLocals
               /\ qres' = QNone
               /\ qcat' = <<>>
               /\ req' = NoReq
               /\ qcalls' = <<>>
               /\ UNCHANGED <<poolVars, callVars, resolveVars>>

HandleAddChannel(input) ==
    /\ apc = "idle"
    /\ qpc = "idle"
    /\ rpc = "idle"
    /\ pc["A"] = "idle"
    /\ IF Len(apiKeysState) = 0
       THEN /\ appError' = "Please set your YouTube Data API key(s) in Settings first."
            /\ isSettingsOpen' = TRUE
            /\ UNCHANGED <<storage, trackedChannels, addVars, poolVars, callVars,
                           resolveVars, queryVars>>
       ELSE IF Len(IdentifiersOf(input)) = 0
       THEN UNCHANGED <<storage, trackedChannels, appError, isSettingsOpen, addVars,
                        poolVars, callVars, resolveVars, queryVars>>
       ELSE /\ channelInput' = input
            /\ \E identifiers \in {IdentifiersOf(input)} :
                  AddChannelLoop(identifiers, 1, <<>>, <<>>, <<>>, trackedChannels, "")
            /\ UNCHANGED isSettingsOpen
    /\ UNCHANGED <<apiKeysState, channelGroups, videosPerPage, isLoading, groupVars,
                   singleVars, formatVars,
                   histVars>>

\* `existingIds.has(stats.id) || newChannels.some(c => c.id === stats.id)`
IsDuplicate_ClosureOnly(stats) == \E i \in DOMAIN aclosure : aclosure[i].id = stats.id

IsDuplicate(stats) ==
    \/ \E i \in DOMAIN aclosure : aclosure[i].id = stats.id
    \/ \E i \in DOMAIN anew : anew[i].id = stats.id

\* getChannelStats has settled and the loop goes on.
AddChannelResumed ==
    /\ apc = "awaiting"
    /\ qop = "getChannelStats"
    /\ qpc = "done"
    /\ \E identifiers \in {IdentifiersOf(channelInput)} :
          IF qres.kind = "error"
          THEN AddChannelLoop(identifiers, aidx + 1, anew,
                              Append(aerrors, ErrorEntry(identifiers, aidx, qres.error)),
                              Append(alog, Event(aidx, "failed")), aclosure, appError)
          ELSE IF IsDuplicate(qres.value)
          THEN AddChannelLoop(identifiers, aidx + 1, anew, aerrors,
                              Append(alog, Event(aidx, "duplicate")), aclosure, appError)
          ELSE AddChannelLoop(identifiers, aidx + 1, Append(anew, qres.value), aerrors,
                              Append(alog, Event(aidx, "added")), aclosure, appError)
    /\ UNCHANGED <<channelInput, apiKeysState, channelGroups, videosPerPage, isLoading,
                   isSettingsOpen, groupVars, histVars, singleVars, formatVars>>

(***************************************************************************)
(* The single-channel view: handleSelectChannel, handleLoadMore and        *)
(* handleBackToMultiView.  The videos of a channel come in MaxPages pages  *)
(* of one video; a video and a page token carry the channel they are of.   *)
(***************************************************************************)
\* What getChannelVideos(id, videosPerPage, token) returns for page p of the
\* channel id.
VideoPage(id, p) ==
    [videos |-> <<[channel |-> id, page |-> p]>>,
     nextPageToken |-> IF p < MaxPages THEN <<[channel |-> id, page |-> p + 1]>> ELSE <<>>]

\* trackedChannels.find(c => c.id === channelId): the positions that match.
ChannelsWithId(channelId) ==
    {i \in DOMAIN trackedChannels : trackedChannels[i].id = channelId}

\* handleSelectChannel up to its await.
HandleSelectChannel(channelId) ==
    /\ spc = "idle"
    /\ IF ChannelsWithId(channelId) = {}
       THEN UNCHANGED <<view, isLoadingVideos, appError, selectedChannel, sortOrder,
                        spc, sfor>>
       ELSE /\ view' = "single"
            /\ isLoadingVideos' = TRUE
            /\ appError' = ""
            /\ selectedChannel' = <<>>
            /\ sortOrder' = "date"
            /\ spc' = "awaiting"
            /\ sfor' = <<trackedChannels[CHOOSE i \in ChannelsWithId(channelId) :
                                            \A j \in ChannelsWithId(channelId) : i <= j]>>
    /\ UNCHANGED <<isLoadingMore, lpc, lfor>>
    /\ UNCHANGED <<storage, apiKeysState, trackedChannels, channelGroups, videosPerPage,
                   isLoading, isSettingsOpen, comparisonData, isLoadingComparison,
                   selectedGroup, comparisonDateRange, gpc, gchannels, gjobs, gfetch,
                   addVars, formatVars>>
    /\ UNCHANGED <<poolVars, callVars, histVars, resolveVars, queryVars>>

\* The getChannelVideos call of handleSelectChannel settles with outcome: the
\* rest of the try block, or the catch block, and the finally block.
SelectChannelSettles(outcome) ==
    /\ spc = "awaiting"
    /\ IF outcome.kind = "ok"
       THEN /\ selectedChannel' =
                  <<[stats |-> sfor[1], videos |-> outcome.value.videos,
                     nextPageToken |-> outcome.value.nextPageToken]>>
            /\ UNCHANGED <<appError, view>>
       ELSE /\ appError' = OrDefault(MessageOf(outcome.error), "An unknown error occurred.")
            /\ view' = "multi"
            /\ UNCHANGED selectedChannel
    /\ isLoadingVideos' = FALSE
    /\ spc' = "idle"
    /\ sfor' = <<>>
    /\ UNCHANGED <<isLoadingMore, lpc, lfor, sortOrder>>
    /\ UNCHANGED <<storage, apiKeysState, trackedChannels, channelGroups, videosPerPage,
                   isLoading, isSettingsOpen, comparisonData, isLoadingComparison,
                   selectedGroup, comparisonDateRange, gpc, gchannels, gjobs, gfetch,
                   addVars, formatVars>>
    /\ UNCHANGED <<poolVars, callVars, histVars, resolveVars, queryVars>>

SelectChannelFetched == SelectChannelSettles(QOk(VideoPage(sfor[1].id, 1)))

SelectChannelFails(err) == SelectChannelSettles(QErr(err))

\* handleLoadMore up to its await.
HandleLoadMore ==
    /\ lpc = "idle"
    /\ IF selectedChannel = <<>> \/ selectedChannel[1].nextPageToken = <<>> \/ isLoadingMore
       THEN UNCHANGED <<isLoadingMore, appError, lpc, lfor>>
       ELSE /\ isLoadingMore' = TRUE
            /\ appError' = ""
            /\ lpc' = "awaiting"
            /\ lfor' = <<[id |-> selectedChannel[1].stats.id,
                          pageToken |-> selectedChannel[1].nextPageToken[1]]>>
    /\ UNCHANGED <<selectedChannel, isLoadingVideos, spc, sfor, sortOrder>>
    /\ UNCHANGED <<storage, apiKeysState, trackedChannels, channelGroups, videosPerPage,
                   isLoading, isSettingsOpen, groupVars, addVars, formatVars>>
    /\ UNCHANGED <<poolVars, callVars, histVars, resolveVars, queryVars>>

\* `prevData => prevData ? {...prevData, videos: [...], nextPageToken} : null`
Appended(prevData, videoData) ==
    IF prevData = <<>>
    THEN <<>>
    ELSE <<[prevData[1] EXCEPT !.videos = @ \o videoData.videos,
                               !.nextPageToken = videoData.nextPageToken]>>

\* The getChannelVideos call of handleLoadMore settles with outcome.
LoadMoreSettles(outcome) ==
    /\ lpc = "awaiting"
    /\ IF outcome.kind = "ok"
       THEN /\ selectedChannel' = Appended(selectedChannel, outcome.value)
            /\ UNCHANGED appError
       ELSE /\ appError' = OrDefault(MessageOf(outcome.error),
                                     "An unknown error occurred while loading more videos.")
            /\ UNCHANGED selectedChannel
    /\ isLoadingMore' = FALSE
    /\ lpc' = "idle"
    /\ lfor' = <<>>
    /\ UNCHANGED <<isLoadingVideos, spc, sfor, sortOrder>>
    /\ UNCHANGED <<storage, apiKeysState, trackedChannels, channelGroups, videosPerPage,
                   isLoading, isSettingsOpen, groupVars, addVars, formatVars>>
    /\ UNCHANGED <<poolVars, callVars, histVars, resolveVars, queryVars>>

LoadMoreFetched == LoadMoreSettles(QOk(VideoPage(lfor[1].id, lfor[1].pageToken.page)))

LoadMoreFails(err) == LoadMoreSettles(QErr(err))

HandleBackToMultiView ==
    /\ view' = "multi"
    /\ selectedChannel' = <<>>
    /\ comparisonData' = <<>>
    /\ selectedGroup' = <<>>
    /\ comparisonDateRange' = <<>>
    /\ appError' = ""
    /\ UNCHANGED <<isLoadingVideos, isLoadingMore, spc, sfor, lpc, lfor, sortOrder>>
    /\ UNCHANGED <<storage, apiKeysState, trackedChannels, channelGroups, videosPerPage,
                   isLoading, isSettingsOpen, isLoadingComparison, gpc, gchannels, gjobs,
                   gfetch, addVars, formatVars>>
    /\ UNCHANGED <<poolVars, callVars, histVars, resolveVars, queryVars>>


Init ==
    /\ apiKeys = <<>>
    /\ currentKeyIndex = 0
    /\ pc = [c \in Calls |-> "idle"]
    /\ attempt = [c \in Calls |-> 0]
    /\ apiKey = [c \in Calls |-> 0]
    /\ result = [c \in Calls |-> NoResult]
    /\ raised = [c \in Calls |-> NoResult]
    /\ log = [c \in Calls |-> <<>>]
    /\ replaced = [c \in Calls |-> FALSE]
    /\ configArg = <<>>
    /\ configPrevIndex = 0
    /\ served = <<>>
    /\ rpc = "idle"
    /\ rid = <<>>
    /\ rresult = NoResult
    /\ rcalls = 0
    /\ rattempts = <<>>
    /\ qop = "none"
    /\ qpc = "idle"
    /\ qargs = NoArgs
    /\ qloc = NoLocals
    /\ qres = QNone
    /\ qcat = <<>>
    /\ req = NoReq
    /\ qcalls = <<>>
    /\ storage = [k \in StoreKeys |-> NoItem]
    /\ apiKeysState = <<>>
    /\ trackedChannels = <<>>
    /\ channelGroups = <<>>
    /\ videosPerPage = DefaultVideosPerPage
    /\ appError = ""
    /\ isLoading = TRUE
    /\ isSettingsOpen = FALSE
    /\ view = "multi"
    /\ comparisonData = <<>>
    /\ isLoadingComparison = FALSE
    /\ selectedGroup = <<>>
    /\ comparisonDateRange = <<>>
    /\ gpc = "idle"
    /\ gchannels = <<>>
    /\ gjobs = <<>>
    /\ gfetch = <<>>
    /\ isAddingChannel = FALSE
    /\ apc = "idle"
    /\ channelInput = <<>>
    /\ aidx = 0
    /\ anew = <<>>
    /\ aerrors = <<>>
    /\ aclosure = <<>>
    /\ alog = <<>>
    /\ selectedChannel = <<>>
    /\ isLoadingVideos = FALSE
    /\ isLoadingMore = FALSE
    /\ spc = "idle"
    /\ sfor = <<>>
    /\ lpc = "idle"
    /\ lfor = <<>>
    /\ sortOrder = "date"
    /\ fnum = 0
    /\ fres = <<>>

Next ==
    \/ \E c \in Calls : StartCall(c)
    \/ \E c \in Calls, resp \in Responses : Receive(c, resp)
    \/ \E c \in Calls : Return(c)
    \/ \E keys \in DistinctPools : Reconfigure(keys)

Spec == Init /\ [][Next]_vars

NextPool ==
    \/ \E keys \in AllPools : Configure(keys)
    \/ GetNextApiKey

SpecPool == Init /\ [][NextPool]_vars

NextResolve ==
    \/ \E id \in Identifiers : ResolveStart(id)
    \/ ResolveUsername
    \/ ResolveSearch
    \/ ResolveReturn
    \/ \E resp \in Responses : Receive("A", resp)
    \/ \E keys \in DistinctPools : Reconfigure(keys)

SpecResolve == Init /\ [][NextResolve]_vars

NextVideos ==
    \/ /\ qop = "none"
       /\ \E cat \in Catalogs, maxResults \in PageSizes :
             /\ Fits(cat, maxResults)
             /\ \E tok \in TokensOf(cat) : GetChannelVideos("none", maxResults, tok, cat)
    \/ ChannelVideosSearched
    \/ ChannelVideosHydrated
    \/ QReturn
    \/ /\ pc["A"] = "inflight"
       /\ \E resp \in UpstreamResponses : Receive("A", resp)
    \/ /\ qop = "none"
       /\ \E keys \in DistinctPools : Reconfigure(keys)

SpecVideos == Init /\ [][NextVideos]_vars

NextOldest ==
    \/ /\ qop = "none"
       /\ \E cat \in Catalogs : GetOldestVideo("none", cat)
    \/ OldestVideoFetched
    \/ QReturn
    \/ /\ pc["A"] = "inflight"
       /\ \E resp \in UpstreamResponses : Receive("A", resp)
    \/ /\ qop = "none"
       /\ \E keys \in DistinctPools : Reconfigure(keys)

SpecOldest == Init /\ [][NextOldest]_vars

NextRange ==
    \/ /\ qop = "none"
       /\ \E cat \in Catalogs : Fits(cat, 1) /\ GetNewestVideoInRange(cat)
    \/ NewestVideoSearched
    \/ /\ qop = "none"
       /\ \E cat \in Catalogs : GetChannelStatsForDateRange(cat)
    \/ StatsSearched
    \/ StatsHydrated
    \/ /\ qop = "none"
       /\ \E cat \in Catalogs, r \in Ranges : GetOldestVideoInRange(cat, r.start, r.end)
    \/ OldestInRangeFetched
    \/ QReturn
    \/ /\ pc["A"] = "inflight"
       /\ \E resp \in UpstreamResponses : Receive("A", resp)
    \/ /\ qop = "none"
       /\ \E keys \in DistinctPools : Reconfigure(keys)

SpecRange == Init /\ [][NextRange]_vars

NextNewest ==
    \/ /\ qop = "none"
       /\ \E cat \in Catalogs : Fits(cat, 1) /\ GetNewestVideoInRange(cat)
    \/ NewestVideoSearched
    \/ /\ qop = "none"
       /\ \E cat \in Catalogs :
             Fits(cat, 1) /\ GetChannelVideos("getNewestVideoInRange", 1, NoToken, cat)
    \/ ChannelVideosSearched
    \/ ChannelVideosHydrated
    \/ QReturn
    \/ /\ pc["A"] = "inflight"
       /\ \E resp \in UpstreamResponses : Receive("A", resp)
    \/ /\ qop = "none"
       /\ \E keys \in DistinctPools : Reconfigure(keys)

SpecNewest == Init /\ [][NextNewest]_vars

\* The page is opened on whatever localStorage holds, and after each change
\* of the settings it may be opened again.
InitStore ==
    /\ storage \in Stores
    /\ apiKeys = <<>>
    /\ currentKeyIndex = 0
    /\ pc = [c \in Calls |-> "idle"]
    /\ attempt = [c \in Calls |-> 0]
    /\ apiKey = [c \in Calls |-> 0]
    /\ result = [c \in Calls |-> NoResult]
    /\ raised = [c \in Calls |-> NoResult]
    /\ log = [c \in Calls |-> <<>>]
    /\ replaced = [c \in Calls |-> FALSE]
    /\ configArg = <<>>
    /\ configPrevIndex = 0
    /\ served = <<>>
    /\ rpc = "idle"
    /\ rid = <<>>
    /\ rresult = NoResult
    /\ rcalls = 0
    /\ rattempts = <<>>
    /\ qop = "none"
    /\ qpc = "idle"
    /\ qargs = NoArgs
    /\ qloc = NoLocals
    /\ qres = QNone
    /\ qcat = <<>>
    /\ req = NoReq
    /\ qcalls = <<>>
    /\ apiKeysState = <<>>
    /\ trackedChannels = <<>>
    /\ channelGroups = <<>>
    /\ videosPerPage = DefaultVideosPerPage
    /\ appError = ""
    /\ isLoading = TRUE
    /\ isSettingsOpen = FALSE
    /\ view = "multi"
    /\ comparisonData = <<>>
    /\ isLoadingComparison = FALSE
    /\ selectedGroup = <<>>
    /\ comparisonDateRange = <<>>
    /\ gpc = "idle"
    /\ gchannels = <<>>
    /\ gjobs = <<>>
    /\ gfetch = <<>>
    /\ isAddingChannel = FALSE
    /\ apc = "idle"
    /\ channelInput = <<>>
    /\ aidx = 0
    /\ anew = <<>>
    /\ aerrors = <<>>
    /\ aclosure = <<>>
    /\ alog = <<>>
    /\ selectedChannel = <<>>
    /\ isLoadingVideos = FALSE
    /\ isLoadingMore = FALSE
    /\ spc = "idle"
    /\ sfor = <<>>
    /\ lpc = "idle"
    /\ lfor = <<>>
    /\ sortOrder = "date"
    /\ fnum = 0
    /\ fres = <<>>

NextStore ==
    \/ Startup
    \/ /\ ~isLoading
       /\ \E keys \in DistinctPools : Reconfigure(keys)
    \/ /\ ~isLoading
       /\ \E n \in VideosPerPageChoices : HandleVideosPerPageChange(n)

SpecStore == InitStore /\ [][NextStore]_vars

\* The page is opened on stored channels and groups, and groups are compared.
InitGroup ==
    /\ InitStore
    /\ storage[ApiKeysItem] = Stringify(<<1>>)
    /\ storage[VideosPerPageItem] = NoItem

NextGroup ==
    \/ isLoading /\ Startup
    \/ /\ ~isLoading
       /\ \E groupId \in GroupIds, dateRange \in DateRanges :
             HandleSelectGroup(groupId, dateRange)
    \/ \E i \in DOMAIN gjobs, op \in GroupOps :
          \E value \in FetchValues(op) : JobFetched(i, op, value)
    \/ \E i \in DOMAIN gjobs, op \in GroupOps, err \in FetchErrors :
          JobFetchFails(i, op, err)

SpecGroup == InitGroup /\ [][NextGroup]_vars

(***************************************************************************)
(* Channels are added from pasted text.                                    *)
(***************************************************************************)
MaxLines == 2

AtHandle == <<"@">> \o Handle
ChannelUrl == YouTubeCom \o <<"c", "h", "a", "n", "n", "e", "l", "/">> \o ChannelY
PastedLines == {<<" ">>, ChannelX, <<" ">> \o AtHandle, UCShort, ChannelUrl}

PastedInputs == UNION {[1..n -> PastedLines] : n \in 0..MaxLines}

InitAdd ==
    /\ InitStore
    /\ storage[ApiKeysItem] \in {Malformed(<<1>>), Stringify(<<1>>), Stringify(<<1, 2>>)}
    /\ storage[ChannelsItem] \in {NoItem, Stringify(<<ChannelStatsOf(ChannelX)>>)}
    /\ storage[GroupsItem] = NoItem
    /\ storage[VideosPerPageItem] = NoItem

\* One submission is followed from the opening of the page to its end.
NextAdd ==
    \/ isLoading /\ Startup
    \/ /\ ~isLoading
       /\ channelInput = <<>>
       /\ \E input \in PastedInputs : HandleAddChannel(input)
    \/ AddChannelResumed
    \/ StatsResolved
    \/ ChannelsFetched
    \/ ResolveUsername
    \/ ResolveSearch
    \/ qpc = "resolve" /\ \E resp \in Responses : Receive("A", resp)
    \/ qpc = "channels" /\ \E resp \in ChannelsResponses(req.ids[1]) : Receive("A", resp)

SpecAdd == InitAdd /\ [][NextAdd]_vars

(***************************************************************************)
(* The six handlers that change the persisted state.  The settings and    *)
(* the groups are changed before the channels are submitted; channels are  *)
(* removed at any time, also while the submitted ones are being fetched.   *)
(***************************************************************************)
SubmittedInputs == {<<ChannelX>>, <<UCShort, ChannelUrl>>}

InitApp ==
    /\ InitStore
    /\ storage[ApiKeysItem] = Stringify(<<1>>)
    /\ storage[ChannelsItem]
          \in {NoItem, Stringify(<<ChannelStatsOf(ChannelX), ChannelStatsOf(ChannelY)>>)}
    /\ storage[GroupsItem] \in {NoItem, Stringify(<<Group("group-1", <<ChannelX, ChannelY>>)>>)}
    /\ storage[VideosPerPageItem] = NoItem

\* No settled promise awaits its continuation: event handlers run between tasks.
BetweenTasks == pc["A"] # "done" /\ rpc # "done" /\ qpc # "done"

NextApp ==
    \/ isLoading /\ Startup
    \/ /\ ~isLoading /\ BetweenTasks /\ channelInput = <<>>
       /\ \E keys \in DistinctPools : Reconfigure(keys)
    \/ /\ ~isLoading /\ BetweenTasks /\ channelInput = <<>>
       /\ \E n \in VideosPerPageChoices : HandleVideosPerPageChange(n)
    \/ /\ ~isLoading /\ BetweenTasks
       /\ \E i \in DOMAIN trackedChannels : HandleRemoveChannel(trackedChannels[i].id)
    \/ /\ ~isLoading /\ BetweenTasks /\ channelInput = <<>>
       /\ \E i \in DOMAIN channelGroups, channelIds \in Selections :
             HandleSaveGroupEdit(channelGroups[i].id, channelIds)
    \/ /\ ~isLoading /\ BetweenTasks /\ channelInput = <<>>
       /\ \E newId \in GroupIds, channelIds \in Selections :
             /\ \A i \in DOMAIN channelGroups : channelGroups[i].id # newId
             /\ HandleSaveGroupNew(newId, channelIds)
    \/ /\ ~isLoading /\ BetweenTasks /\ channelInput = <<>>
       /\ \E i \in DOMAIN channelGroups : HandleDeleteGroup(channelGroups[i].id)
    \/ /\ ~isLoading
       /\ channelInput = <<>>
       /\ \E input \in SubmittedInputs : HandleAddChannel(input)
    \/ AddChannelResumed
    \/ StatsResolved
    \/ ChannelsFetched
    \/ qpc = "channels" /\ \E resp \in ChannelsResponses(req.ids[1]) : Receive("A", resp)

SpecApp == InitApp /\ [][NextApp]_vars

\* Upstream answers the request in flight.
Respond ==
    /\ pc["A"] = "inflight"
    /\ \E resp \in UpstreamResponses : Receive("A", resp)

\* The uploads collection is paged one item a page here.
NextOldestInRange ==
    \/ /\ qop = "none"
       /\ \E cat \in Catalogs, r \in Ranges :
             Fits(cat, 1) /\ GetOldestVideoInRange(cat, r.start, r.end)
    \/ OldestInRangeFetched
    \/ QReturn
    \/ Respond
    \/ /\ qop = "none"
       /\ \E keys \in DistinctPools : Reconfigure(keys)

\* Every request is answered, and a settled await resumes its function.
SpecOldestInRange ==
    /\ Init
    /\ [][NextOldestInRange]_vars
    /\ WF_vars(Respond)
    /\ WF_vars(OldestInRangeFetched)

\* The numbers formatNumber is applied to: every count up to MaxNumber, and
\* beyond it the multiples of 50 and of 50000 (where the scaled value falls
\* on or halfway between two tenths) and the numbers just below them.
MaxNumber == 2000

Numbers ==
    (0..MaxNumber)
        \cup {k * 50 + d : k \in 0..(20 * MaxNumber), d \in {0, 49}}
        \cup {k * 50000 + d : k \in 1..MaxNumber, d \in {0, 1}}

\* One call of formatNumber; fnum and fres record its argument and its result.
FormatNumberCall(num) ==
    /\ fres = <<>>
    /\ fnum' = num
    /\ fres' = FormatNumber(num)
    /\ UNCHANGED <<poolVars, callVars, histVars, resolveVars, queryVars,
                   storeVars, groupVars, addVars, singleVars>>

NextFormat ==
    /\ fres = <<>>
    /\ \E num \in Numbers : FormatNumberCall(num)

SpecFormat == Init /\ [][NextFormat]_vars

\* The dates a caller passes: an instant, or none.
OptionalDates == Instants \cup {NoDate}

\* The two range functions called with both dates, with one, with none.  The
\* uploads collection is paged one item a page here.
NextDelegate ==
    \/ /\ qop = "none"
       /\ \E cat \in Catalogs, start \in OptionalDates, end \in OptionalDates :
             /\ Fits(cat, 1)
             /\ (start # NoDate /\ end # NoDate) => GetTime(start) <= GetTime(end)
             /\ OldestVideoInRange(cat, start, end)
    \/ /\ qop = "none"
       /\ \E cat \in Catalogs, start \in OptionalDates, end \in OptionalDates :
             /\ Fits(cat, 1)
             /\ (start # NoDate /\ end # NoDate) => GetTime(start) <= GetTime(end)
             /\ NewestVideoInRange(cat, start, end)
    \/ OldestVideoFetched
    \/ OldestInRangeFetched
    \/ ChannelVideosSearched
    \/ ChannelVideosHydrated
    \/ NewestVideoSearched
    \/ QReturn
    \/ Respond
    \/ /\ qop = "none"
       /\ \E keys \in DistinctPools : Reconfigure(keys)

SpecDelegate == Init /\ [][NextDelegate]_vars

\* What the page shows: the list of channels, or the dashboard of one.
MultiViewShown == ~isLoading /\ view = "multi"

DashboardShown == ~isLoading /\ view = "single" /\ ~isLoadingVideos /\ selectedChannel # <<>>

InitSingle ==
    /\ InitStore
    /\ storage[ApiKeysItem] = Stringify(<<1>>)
    /\ storage[ChannelsItem] = Stringify(<<ChannelStatsOf(ChannelX), ChannelStatsOf(ChannelY)>>)
    /\ storage[GroupsItem] = NoItem
    /\ storage[VideosPerPageItem] = NoItem

NextSingle ==
    \/ isLoading /\ Startup
    \/ /\ MultiViewShown
       /\ \E i \in DOMAIN trackedChannels : HandleSelectChannel(trackedChannels[i].id)
    \/ SelectChannelFetched
    \/ \E err \in FetchErrors : SelectChannelFails(err)
    \/ DashboardShown /\ HandleLoadMore
    \/ LoadMoreFetched
    \/ \E err \in FetchErrors : LoadMoreFails(err)
    \/ DashboardShown /\ HandleBackToMultiView
    \/ /\ DashboardShown
       /\ \E n \in VideosPerPageChoices : HandleVideosPerPageChange(n)
    \/ /\ MultiViewShown
       /\ \E i \in DOMAIN trackedChannels : HandleRemoveChannel(trackedChannels[i].id)

SpecSingle == InitSingle /\ [][NextSingle]_vars

\* Inputs that name one channel twice, in one form or in two.
RepeatedInputs == {<<ChannelX, ChannelX>>, <<ChannelUrl, ChannelY>>}

\* Channels are added and removed, one during the other included.
NextTracked ==
    \/ isLoading /\ Startup
    \/ /\ ~isLoading /\ BetweenTasks
       /\ \E i \in DOMAIN trackedChannels : HandleRemoveChannel(trackedChannels[i].id)
    \/ /\ ~isLoading
       /\ channelInput = <<>>
       /\ \E input \in RepeatedInputs : HandleAddChannel(input)
    \/ AddChannelResumed
    \/ StatsResolved
    \/ ChannelsFetched
    \/ qpc = "channels" /\ \E resp \in ChannelsResponses(req.ids[1]) : Receive("A", resp)

SpecTracked == InitApp /\ [][NextTracked]_vars

\* One caller: no other logical call is ever in flight.
NextSolo ==
    \/ StartCall("A")
    \/ \E resp \in Responses : Receive("A", resp)
    \/ Return("A")
    \/ \E keys \in DistinctPools : Reconfigure(keys)

SpecSolo == Init /\ [][NextSolo]_vars

\* The comparison of a group is shown.
ComparisonShown ==
    ~isLoading /\ view = "comparison" /\ ~isLoadingComparison /\ selectedGroup # <<>>

InitLive ==
    /\ InitStore
    /\ storage[ApiKeysItem] = Stringify(<<1>>)
    /\ storage[ChannelsItem] = Stringify(<<ChannelStatsOf(ChannelX)>>)
    /\ storage[GroupsItem] = Stringify(<<Group("group-1", <<ChannelX>>)>>)
    /\ storage[VideosPerPageItem] = NoItem

\* Upstream answers the channels request of handleAddChannel.
ChannelsAnswered ==
    /\ qpc = "channels"
    /\ \E resp \in ChannelsResponses(req.ids[1]) : Receive("A", resp)

\* The getChannelVideos call of handleSelectChannel, that of handleLoadMore,
\* and a promise of handleSelectGroup settle, each fulfilled or rejected.
SelectChannelAnswered == SelectChannelFetched \/ SelectChannelFails(TransportError)

LoadMoreAnswered == LoadMoreFetched \/ LoadMoreFails(TransportError)

JobAnswered ==
    \E i \in DOMAIN gjobs, op \in GroupOps :
       JobFetched(i, op, Null) \/ JobFetchFails(i, op, TransportError)

\* What the user can do on the page shown, and what the requests under way
\* come to.
NextLive ==
    \/ isLoading /\ Startup
    \/ /\ MultiViewShown /\ BetweenTasks /\ ~isAddingChannel
       /\ channelInput = <<>>
       /\ HandleAddChannel(<<ChannelX>>)
    \/ /\ MultiViewShown /\ BetweenTasks
       /\ \E i \in DOMAIN trackedChannels : HandleSelectChannel(trackedChannels[i].id)
    \/ /\ MultiViewShown /\ BetweenTasks
       /\ \E i \in DOMAIN channelGroups : HandleSelectGroup(channelGroups[i].id, <<>>)
    \/ /\ ComparisonShown /\ BetweenTasks
       /\ \E dateRange \in DateRanges : HandleSelectGroup(selectedGroup[1].id, dateRange)
    \/ DashboardShown /\ BetweenTasks /\ HandleLoadMore
    \/ (DashboardShown \/ ComparisonShown) /\ BetweenTasks /\ HandleBackToMultiView
    \/ AddChannelResumed
    \/ StatsResolved
    \/ ChannelsFetched
    \/ ChannelsAnswered
    \/ SelectChannelAnswered
    \/ LoadMoreAnswered
    \/ JobAnswered

\* Every request upstream settles, and a settled await resumes its handler.
SpecLive ==
    /\ InitLive
    /\ [][NextLive]_vars
    /\ WF_vars(ChannelsAnswered)
    /\ WF_vars(ChannelsFetched)
    /\ WF_vars(StatsResolved)
    /\ WF_vars(AddChannelResumed)
    /\ WF_vars(SelectChannelAnswered)
    /\ WF_vars(LoadMoreAnswered)
    /\ WF_vars(JobAnswered)

(***************************************************************************)
(* Properties                                                              *)
(***************************************************************************)
\* Every settled HTTP attempt of the history lg had the class cl.
OnlyClass(lg, cl) == \A i \in DOMAIN lg : lg[i].class \in {cl, "pending"}

Settled(lg) == \A i \in DOMAIN lg : lg[i].class # "pending"

KeysTried(lg) == {lg[i].key : i \in DOMAIN lg}

\* C1: with a pool of N >= 2 keys that is not replaced during the call and
\* every response a quota rejection (quotaExceeded or dailyLimitExceeded), a
\* logical call never makes more than N HTTP attempts and ends, after exactly
\* N, with AllCredentialsExhausted reporting N.
InvC1 ==
    \A c \in Observed :
        (pc[c] # "idle" /\ ~replaced[c] /\ Len(apiKeys) >= 2 /\ OnlyClass(log[c], "quota"))
        => /\ Len(log[c]) <= Len(apiKeys)
           /\ pc[c] = "done" =>
                /\ result[c] = AllKeysFailed(Len(apiKeys))
                /\ Len(log[c]) = Len(apiKeys)

WitC1 ==
    \E c \in Observed :
        /\ pc[c] = "done" /\ ~replaced[c] /\ Len(apiKeys) >= 2
        /\ OnlyClass(log[c], "quota")
        /\ Len(log[c]) = Len(apiKeys)
        /\ result[c].kind = "AllCredentialsExhausted"

\* C2 (as claimed): a call whose first HTTP response was an error with a reason
\* that is no quota reason made no other HTTP attempt and is settled with
\* UpstreamRequestFailed carrying the upstream message, whatever the pool size.
CexC2 ==
    \A c \in Observed :
        (pc[c] # "idle" /\ ~replaced[c] /\ log[c] # <<>> /\ log[c][1].class = "other")
        => /\ Len(log[c]) = 1
           /\ pc[c] = "done"
           /\ result[c].kind = "UpstreamRequestFailed"
           /\ result[c].message = "forbidden"

\* C3: with a pool of N >= 1 keys that is not replaced during the call and
\* every HTTP attempt failing at transport level, a logical call ends after
\* exactly N attempts with the transport error itself.
InvC3 ==
    \A c \in Observed :
        (pc[c] # "idle" /\ ~replaced[c] /\ Len(apiKeys) >= 1 /\ OnlyClass(log[c], "network"))
        => /\ Len(log[c]) <= Len(apiKeys)
           /\ pc[c] = "done" =>
                /\ result[c] = TransportError
                /\ Len(log[c]) = Len(apiKeys)

WitC3 ==
    \E c \in Observed :
        /\ pc[c] = "done" /\ ~replaced[c] /\ Len(apiKeys) >= 2
        /\ OnlyClass(log[c], "network")
        /\ Len(log[c]) = Len(apiKeys)
        /\ result[c] = TransportError

\* C4: once AllCredentialsExhausted has been thrown inside a logical call, the
\* call is settled with that very error and has no HTTP attempt outstanding.
InvC4 ==
    \A c \in Calls :
        raised[c] # NoResult
        => /\ pc[c] = "done"
           /\ result[c] = raised[c]
           /\ Settled(log[c])

WitC4 ==
    \E c \in Observed :
        /\ raised[c].kind = "AllCredentialsExhausted"
        /\ result[c] = raised[c]
        /\ \E i \in DOMAIN log[c] : log[c][i].class = "network"
        /\ \E i \in DOMAIN log[c] : log[c][i].class = "quota"

\* C5 (as claimed): a call that failed with AllCredentialsExhausted, the pool
\* not replaced meanwhile, tried every key of the pool, each attempt with a key
\* it had not tried before, whatever other calls did in between.
CexC5 ==
    \A c \in Observed :
        (pc[c] = "done" /\ ~replaced[c] /\ result[c].kind = "AllCredentialsExhausted")
        => /\ KeysTried(log[c]) = Range(apiKeys)
           /\ Cardinality(KeysTried(log[c])) = Len(log[c])

\* C6: after setApiKeys(keys) with N >= 1 keys, the i-th getNextApiKey returns
\* keys[i] for i <= N and the (N+1)-th returns keys[1] again.
InvC6 ==
    Len(apiKeys) >= 1
    => \A i \in DOMAIN served : served[i] = configArg[((i - 1) % Len(configArg)) + 1]

WitC6 ==
    /\ Len(apiKeys) >= 2
    /\ Cardinality(Range(apiKeys)) = Len(apiKeys)
    /\ Len(served) = Len(apiKeys) + 1
    /\ served[Len(served)] = apiKeys[1]

\* C7: setApiKeys(keys), in any state, leaves the pool equal to keys in the
\* same order and the cursor at 0, and the next getNextApiKey returns keys[1].
InvC7 ==
    /\ served = <<>> => (apiKeys = configArg /\ currentKeyIndex = 0)
    /\ (Len(served) >= 1 /\ configArg # <<>>) => served[1] = configArg[1]

WitC7 ==
    /\ configPrevIndex > 0
    /\ Len(configArg) >= 2
    /\ configArg[1] # configArg[2]
    /\ Len(served) = 1
    /\ served[1] = configArg[1]

\* C8: whenever the pool is non-empty the cursor is a position of the pool.
InvC8 == Len(apiKeys) > 0 => currentKeyIndex \in 0..(Len(apiKeys) - 1)

WitC8 ==
    \E c \in Observed :
        /\ pc[c] = "inflight" /\ replaced[c]
        /\ pc["B"] = "inflight"
        /\ Len(apiKeys) >= 2
        /\ currentKeyIndex = Len(apiKeys) - 1

\* C9: a logical call started on an empty pool settles at once with
\* NoCredentialsConfigured, without an HTTP attempt, the pool and the cursor
\* left as they were.
PropC9 ==
    [][\A c \in Calls :
          (pc[c] = "idle" /\ pc'[c] # "idle" /\ Len(apiKeys) = 0)
          => /\ pc'[c] = "done"
             /\ result'[c] = NoKeysError
             /\ log'[c] = <<>>
             /\ UNCHANGED <<apiKeys, currentKeyIndex>>]_vars

WitC9 ==
    \E c \in Observed :
        /\ pc[c] = "done" /\ ~replaced[c] /\ Len(apiKeys) = 0
        /\ result[c] = NoKeysError
        /\ log[c] = <<>>

\* C10: resolveChannelId on an identifier of canonical shape (24 characters,
\* starting with UC) settles at once with the identifier itself, makes no
\* fetchYouTubeAPI call and leaves the pool and the cursor as they were.
IsCanonicalShape(id) == Len(id) = 24 /\ StartsWith(id, <<"U", "C">>)

PropC10 ==
    [][(rpc = "idle" /\ rpc' # "idle" /\ IsCanonicalShape(rid'))
       => /\ rpc' = "done"
          /\ rresult' = OkResult(rid')
          /\ rcalls' = 0
          /\ UNCHANGED <<apiKeys, currentKeyIndex, pc, log>>]_vars

WitC10 ==
    /\ rpc = "done"
    /\ IsCanonicalShape(rid)
    /\ rresult = OkResult(rid)
    /\ rcalls = 0
    /\ Len(apiKeys) >= 2
    /\ currentKeyIndex > 0

\* C11 (as claimed): an identifier that is not 24 characters with the UC
\* prefix, one that starts with UC but has another length included, is first
\* sent to the username lookup and is not returned as it came.
CexC11 ==
    [][(rpc = "idle" /\ rpc' # "idle" /\ ~IsCanonicalShape(rid'))
       => /\ rpc' = "username"
          /\ rcalls' = 1
          /\ rresult' = NoResult
          /\ pc'["A"] # "idle"]_vars

\* C12: once the username lookup of an identifier has settled with an error
\* of any kind or with no items, the resolver issues the search as its second
\* call; a search that succeeds gives the channel id of its first item when
\* that item carries one, and ChannelNotFound otherwise.
PropC12 ==
    [][/\ (rpc = "username" /\ rpc' # "username"
            /\ (result["A"].kind # "ok" \/ result["A"].data = <<>>))
          => /\ rpc' = "search"
             /\ rcalls' = 2
             /\ rresult' = NoResult
             /\ pc'["A"] # "idle"
       /\ (rpc = "search" /\ rpc' # "search" /\ result["A"].kind = "ok")
          => /\ rpc' = "done"
             /\ rcalls' = 2
             /\ rresult' =
                   IF result["A"].data # <<>> /\ result["A"].data[1] # NoId
                   THEN [kind |-> "ok", poolSize |-> 0, message |-> "",
                         data |-> result["A"].data[1]]
                   ELSE ChannelNotFound]_vars

WitC12 ==
    /\ rpc = "done"
    /\ rcalls = 2
    /\ rresult = ChannelNotFound
    /\ ~StartsWith(rid, <<"U", "C">>)

\* The page of the collection that the token names, and the token upstream
\* gives with that page.
PageIndex(tok) == IF tok = NoToken THEN 1 ELSE tok

TokenAfter(cat, tok) == IF PageIndex(tok) < Len(cat) THEN PageIndex(tok) + 1 ELSE NoToken

ChannelVideosDone ==
    qop = "getChannelVideos" /\ qargs.via = "none" /\ qpc = "done" /\ qres.kind = "ok"

\* C13: getChannelVideos whose search page has no items makes the search call
\* only, never the statistics call, and returns no videos and no page token.
InvC13 ==
    (qop = "getChannelVideos" /\ qcat[PageIndex(qargs.pageToken)] = <<>>)
    => /\ Len(qcalls) = 1
       /\ qcalls[1].endpoint = "search"
       /\ qpc # "videos"
       /\ ChannelVideosDone => qres.value = [videos |-> <<>>, nextPageToken |-> NoToken]

WitC13 ==
    /\ ChannelVideosDone
    /\ qcat[PageIndex(qargs.pageToken)] = <<>>
    /\ TokenAfter(qcat, qargs.pageToken) # NoToken
    /\ qres.value.videos = <<>>

\* C14 (as claimed): every successful getChannelVideos sent the caller's page
\* token to the search and returns the nextPageToken of the search response.
CexC14 ==
    ChannelVideosDone
    => /\ qcalls[1].pageToken = qargs.pageToken
       /\ qres.value.nextPageToken = TokenAfter(qcat, qargs.pageToken)

\* C14 (amended): every successful getChannelVideos sent the caller's page
\* token to the search; it returns the nextPageToken of the search response
\* when the search page has at least one video, and no token when the page is
\* empty, whatever token upstream gave with it.
InvC14 ==
    ChannelVideosDone
    => /\ qcalls[1].endpoint = "search"
       /\ qcalls[1].pageToken = qargs.pageToken
       /\ qres.value.nextPageToken =
             IF qcat[PageIndex(qargs.pageToken)] # <<>>
             THEN TokenAfter(qcat, qargs.pageToken)
             ELSE NoToken

WitC14 ==
    /\ ChannelVideosDone
    /\ Len(qres.value.videos) > 0
    /\ qres.value.nextPageToken # NoToken
    /\ qres.value.nextPageToken = TokenAfter(qcat, qargs.pageToken)

\* C15 (as claimed): every video that getChannelVideos returns has a like
\* count and a comment count, "0" where the upstream item carries none.
CexC15 ==
    ChannelVideosDone
    => \A i \in DOMAIN qres.value.videos :
          LET stat == qres.value.videos[i]
              item == CHOOSE v \in Videos : v.id = stat.id
          IN /\ stat.likeCount = (IF item.likeCount = Absent THEN <<"0">> ELSE item.likeCount)
             /\ stat.commentCount =
                   (IF item.commentCount = Absent THEN <<"0">> ELSE item.commentCount)

OldestVideoDone == qop = "getOldestVideo" /\ qargs.via = "none" /\ qpc = "done"

\* C16: getOldestVideo makes one fetcher call, for the first page of at most
\* 50 uploads; when it returns a video, that video is an item of the first
\* page, no item of the page was published before it, and its three counts
\* are "0"; when the page is empty it returns null.
InvC16 ==
    /\ qop = "getOldestVideo"
       => /\ Len(qcalls) = 1
          /\ qcalls[1] = [endpoint |-> "playlistItems", maxResults |-> 50,
                          pageToken |-> NoToken, ids |-> <<>>, ranged |-> FALSE]
    /\ (OldestVideoDone /\ qres.kind = "ok" /\ qres.value # <<>>)
       => /\ Len(qres.value) = 1
          /\ \E i \in DOMAIN qcat[1] :
                /\ qres.value[1].id = qcat[1][i].id
                /\ qres.value[1].publishedAt = qcat[1][i].publishedAt
                /\ \A j \in DOMAIN qcat[1] :
                      GetTime(qcat[1][i].publishedAt) <= GetTime(qcat[1][j].publishedAt)
          /\ qres.value[1].viewCount = <<"0">>
          /\ qres.value[1].likeCount = <<"0">>
          /\ qres.value[1].commentCount = <<"0">>
    /\ (OldestVideoDone /\ qcat[1] = <<>>) => qres = QOk(<<>>)

\* The oldest item is the last of a first page of two, and a second page exists.
WitC16 ==
    /\ OldestVideoDone
    /\ Len(qcat) = 2
    /\ Len(qcat[1]) = 2
    /\ qres.value # <<>>
    /\ qres.value[1].id = qcat[1][2].id

\* C17: getOldestVideo never settles with an error; when its fetcher call
\* fails, with whatever error, it returns null.
PropC17 ==
    [][/\ (qop' = "getOldestVideo" /\ qpc' = "done") => qres'.kind = "ok"
       /\ (qop = "getOldestVideo" /\ qpc = "playlist" /\ qpc' = "done"
            /\ result["A"].kind # "ok")
          => qres' = [kind |-> "ok", value |-> <<>>, error |-> NoResult]]_vars

\* null out of a first page that has items: the fetch failed.
WitC17 ==
    /\ OldestVideoDone
    /\ qcat[1] # <<>>
    /\ qres = QOk(<<>>)

RangedOps == {"getNewestVideoInRange", "getChannelStatsForDateRange", "getOldestVideoInRange"}

\* C18: when a fetcher call of getNewestVideoInRange, of
\* getChannelStatsForDateRange or of getOldestVideoInRange with a range has
\* failed, the operation settles with that very error: not with null, not
\* with the sums so far, and without a further call.
PropC18 ==
    [][(/\ qop \in RangedOps
        /\ qargs.ranged
        /\ qpc \in {"search", "videos", "playlist"}
        /\ pc["A"] = "done"
        /\ result["A"].kind # "ok"
        /\ <<qpc, qres, qcalls>>' # <<qpc, qres, qcalls>>)
       => /\ qpc' = "done"
          /\ qres' = [kind |-> "error", value |-> <<>>, error |-> result["A"]]
          /\ qcalls' = qcalls]_vars

\* getChannelStatsForDateRange has failed after it had counted a page.
WitC18 ==
    /\ qop = "getChannelStatsForDateRange"
    /\ qpc = "done"
    /\ qres.kind = "error"
    /\ qres.error.kind \in {"UpstreamRequestFailed", "AllCredentialsExhausted"}
    /\ qloc.totalVideos > 0
    /\ Len(qcalls) = 3

\* The requests of one endpoint among the calls of the running operation.
CallsTo(endpoint) == SelectSeq(qcalls, LAMBDA r : r.endpoint = endpoint)

\* The k-th page request carries the token of page k, the first none.
InPageOrder(reqs) ==
    \A k \in DOMAIN reqs : reqs[k].pageToken = (IF k = 1 THEN NoToken ELSE k)

RECURSIVE ViewsOf(_)
ViewsOf(S) ==
    IF S = {} THEN 0
    ELSE LET v == CHOOSE x \in S : TRUE
         IN (IF v.viewCount = <<>> THEN 0 ELSE ParseInt(v.viewCount)) + ViewsOf(S \ {v})

\* C19: getChannelStatsForDateRange asks for the pages in order, each once,
\* the first without a token and page k with the token that page k-1 carried;
\* it returns after the page that carries no token, with videoCount the number
\* of videos of all pages and viewCount the sum of their view counts.
InvC19 ==
    qop = "getChannelStatsForDateRange"
    => /\ InPageOrder(CallsTo("search"))
       /\ Len(CallsTo("search")) <= Len(qcat)
       /\ (qpc = "done" /\ qres.kind = "ok")
          => /\ Len(CallsTo("search")) = Len(qcat)
             /\ qres.value.videoCount = StringOf(Cardinality(VideosOf(qcat)))
             /\ qres.value.viewCount = StringOf(ViewsOf(VideosOf(qcat)))

\* Three videos on two pages: 12 + 7 + 0 views.
WitC19 ==
    /\ qop = "getChannelStatsForDateRange"
    /\ qpc = "done"
    /\ Len(qcat) = 2
    /\ Len(qcalls) = 4
    /\ qres.kind = "ok"
    /\ qres.value = [viewCount |-> <<"1", "9">>, videoCount |-> <<"3">>]

Within(item) ==
    /\ GetTime(item.publishedAt) >= GetTime(qargs.start)
    /\ GetTime(item.publishedAt) <= GetTime(qargs.end)

OldestInRangeDone ==
    qop = "getOldestVideoInRange" /\ qargs.ranged /\ qpc = "done" /\ qres.kind = "ok"

\* C21: getOldestVideoInRange with a range returns null exactly when no item
\* of any page was published inside [start, end], and then it has fetched
\* every page, the last being the one without a token; as the collection has
\* a last page, every call settles.
PropC21 ==
    /\ [](OldestInRangeDone
          => /\ (qres.value = <<>>) <=> (\A v \in VideosOf(qcat) : ~Within(v))
             /\ (qres.value = <<>>)
                => /\ Len(qcalls) = Len(qcat)
                   /\ qcalls[Len(qcalls)].pageToken = (IF Len(qcat) = 1 THEN NoToken ELSE Len(qcat)))
    /\ (qop = "getOldestVideoInRange" /\ qpc = "playlist") ~> (qpc = "done")

\* null after two pages that hold videos, none of them inside the range.
WitC21 ==
    /\ OldestInRangeDone
    /\ qres.value = <<>>
    /\ Len(qcat) = 2
    /\ Len(qcalls) = 2
    /\ qcat[1] # <<>>
    /\ qcat[2] # <<>>

\* `new Date('YYYY-MM-DD')` is the first instant of that day.
IsDateOnly(ts) == ts.tod = 0

\* C22 (as claimed): with start and end given as dates, a video published at
\* any time of a day from the start date to the end date counts as inside the
\* range: getOldestVideoInRange returns null only when the collection has no
\* such video.
CexC22 ==
    (OldestInRangeDone /\ IsDateOnly(qargs.start) /\ IsDateOnly(qargs.end)
        /\ qres.value = <<>>)
    => \A v \in VideosOf(qcat) :
          ~(qargs.start.day <= v.publishedAt.day /\ v.publishedAt.day <= qargs.end.day)

\* C23: getNewestVideoInRange with a range makes one fetcher call, a ranged
\* search of size 1, and returns null when that search has no items; without
\* a range it runs getChannelVideos with page size 1 and no page token and
\* returns the first video of its result, or null when there is none.
InvC23 ==
    /\ (qop = "getNewestVideoInRange" /\ qargs.ranged)
       => /\ qcalls = <<[endpoint |-> "search", maxResults |-> 1, pageToken |-> NoToken,
                         ids |-> <<>>, ranged |-> TRUE]>>
          /\ (qpc = "done" /\ qres.kind = "ok" /\ qcat[1] = <<>>) => qres.value = <<>>
          /\ (qpc = "done" /\ qres.kind = "ok" /\ qcat[1] # <<>>)
             => /\ Len(qres.value) = 1
                /\ qres.value[1].id = qcat[1][1].id
    /\ (qop = "getChannelVideos" /\ qargs.via = "getNewestVideoInRange")
       => /\ ~qargs.ranged
          /\ qargs.maxResults = 1
          /\ qargs.pageToken = NoToken
          /\ qcalls[1] = [endpoint |-> "search", maxResults |-> 1, pageToken |-> NoToken,
                          ids |-> <<>>, ranged |-> FALSE]
          /\ (qpc = "done" /\ qres.kind = "ok")
             => qres.value =
                   IF qcat[1] = <<>> THEN <<>>
                   ELSE <<[id |-> qcat[1][1].id, publishedAt |-> qcat[1][1].publishedAt,
                           viewCount |-> qcat[1][1].viewCount,
                           likeCount |-> qcat[1][1].likeCount,
                           commentCount |-> qcat[1][1].commentCount]>>

\* The delegated call has returned the first video of a collection of two pages.
WitC23 ==
    /\ qop = "getChannelVideos"
    /\ qargs.via = "getNewestVideoInRange"
    /\ qpc = "done"
    /\ qres.kind = "ok"
    /\ Len(qcat) = 2
    /\ Len(qcalls) = 2
    /\ qres.value # <<>>
    /\ qres.value[1].id = qcat[1][1].id

\* C28 (as claimed): when the page is opened on the item that
\* handleApiKeysChange(keys) stored, for any list keys, the empty one
\* included, the pool and the App hold that list and the cursor is 0.
CexC28 ==
    [][Startup
       => \A keys \in AllPools :
             storage[ApiKeysItem] =
                 [kind |-> "array", whole |-> TRUE, items |-> keys]
             => /\ apiKeys' = keys
                /\ apiKeysState' = keys
                /\ currentKeyIndex' = 0]_vars

\* An item that is stored and is not whole JSON.
IsMalformed(item) == item.kind # "null" /\ ~item.whole

\* What each key alone gives when the page is opened: its default when the
\* item is missing or malformed, its stored value otherwise.
ExpectedKeys ==
    LET item == storage[ApiKeysItem]
    IN IF item.kind = "array" /\ item.whole /\ item.items # <<>>
       THEN item.items ELSE DEFAULT_API_KEYS

ExpectedList(k) ==
    IF storage[k].kind = "array" /\ storage[k].whole THEN storage[k].items ELSE <<>>

ExpectedVideosPerPage ==
    LET item == storage[VideosPerPageItem]
    IN IF item.kind = "number" /\ item.whole THEN ParseInt(item.items) ELSE 12

\* C29 (as claimed): when the page is opened with malformed JSON under one of
\* the four keys, that key gets its default and the other three get what is
\* stored under them.
CexC29 ==
    [][(Startup /\ Cardinality({k \in StoreKeys : IsMalformed(storage[k])}) = 1)
       => /\ apiKeysState' = ExpectedKeys
          /\ apiKeys' = ExpectedKeys
          /\ trackedChannels' = ExpectedList(ChannelsItem)
          /\ channelGroups' = ExpectedList(GroupsItem)
          /\ videosPerPage' = ExpectedVideosPerPage]_vars

\* The promise of some fetch of the comparison under way is rejected.
SomeRejected == \E i \in DOMAIN gjobs, op \in GroupOps : gjobs[i][op].kind = "error"

\* C24: when a fetch of a channel of the group comparison fails with an error
\* that the operation propagates, no comparison entry is stored, the loading
\* flag is cleared and the view is left; the message shown is the one of the
\* first such error, and a later one does not replace it.
PropC24 ==
    /\ [](SomeRejected
          => /\ comparisonData = <<>>
             /\ ~isLoadingComparison
             /\ gpc = "idle"
             /\ view = "multi"
             /\ appError # "")
    /\ [][\A i \in DOMAIN gjobs, op \in GroupOps, err \in FetchErrors :
            (/\ JobFetchFails(i, op, err)
             /\ gjobs'[i][op].kind = "error")
            => appError' = IF SomeRejected THEN appError ELSE MessageOf(err)]_vars

\* Both channels of a group were being compared over a date range, one has
\* its three results, and a fetch of the other one failed.
WitC24 ==
    /\ Len(gchannels) = 2
    /\ comparisonDateRange # <<>>
    /\ \A op \in GroupOps : gjobs[1][op].kind = "ok"
    /\ gjobs[2]["stats"].kind = "error"
    /\ gjobs[2]["newest"].kind = "error"
    /\ appError = "forbidden"
    /\ comparisonData = <<>>
    /\ ~isLoadingComparison

\* Every promise of the comparison is settled.
AllSettled == \A i \in DOMAIN gjobs, op \in GroupOps : gjobs[i][op].kind # "none"

\* C25: in a comparison without a date range where the fetching of the newest
\* videos succeeded, failed oldest-video lookups do not abort: once all is
\* settled there is one entry for each tracked channel of the group, in the
\* order of the tracked list, no error is shown, and the oldestVideo of a
\* channel whose lookup failed is null.
InvC25 ==
    (/\ selectedGroup # <<>>
     /\ comparisonDateRange = <<>>
     /\ AllSettled
     /\ \A i \in DOMAIN gjobs : gfetch[i]["newest"] = "ok")
    => /\ gpc = "idle"
       /\ ~isLoadingComparison
       /\ view = "comparison"
       /\ appError = ""
       /\ [k \in DOMAIN comparisonData |-> comparisonData[k].id]
            = [k \in DOMAIN gchannels |-> gchannels[k].id]
       /\ gchannels = Filter(trackedChannels,
                             LAMBDA c : c.id \in Range(selectedGroup[1].channelIds))
       /\ \A i \in DOMAIN gjobs :
             gfetch[i]["oldest"] = "failed" => comparisonData[i].oldestVideo = Null

\* Two channels were compared without a date range, the oldest-video lookup
\* of the first one failed and the one of the second found a video.
WitC25 ==
    /\ comparisonDateRange = <<>>
    /\ Len(gchannels) = 2
    /\ AllSettled
    /\ gfetch[1]["oldest"] = "failed"
    /\ gfetch[2]["oldest"] = "ok"
    /\ Len(comparisonData) = 2
    /\ comparisonData[1].oldestVideo = Null
    /\ comparisonData[2].oldestVideo # Null

\* The submitted input has been processed to the end of the handler.
AddChannelDone == apc = "idle" /\ channelInput # <<>>

FetchOutcomes == {"failed", "added", "duplicate"}

\* The events of alog that put an entry into `errors`.
ErrorEvents == SelectSeq(alog, LAMBDA e : e.event \in {"invalid", "failed"})

\* C26: handleAddChannel takes the identifiers one at a time in input order:
\* a fetch for an identifier is begun only when every earlier identifier has
\* its outcome, and a request is in flight only for the identifier awaited;
\* at the end each failure stands in `errors` against the identifier that
\* failed, at its place, and every channel fetched is in the tracked list
\* and in the store.
InvC26 ==
    LET identifiers == IdentifiersOf(channelInput)
    IN /\ \A j \in DOMAIN alog :
             /\ j = 1 => alog[j].index = 1
             /\ alog[j].event = "fetch"
                => IF j = Len(alog)
                   THEN apc = "awaiting" /\ aidx = alog[j].index
                   ELSE /\ alog[j + 1].index = alog[j].index
                        /\ alog[j + 1].event \in FetchOutcomes
             /\ alog[j].event \in FetchOutcomes
                => j > 1 /\ alog[j - 1] = Event(alog[j].index, "fetch")
             /\ (j < Len(alog) /\ alog[j].event # "fetch")
                => alog[j + 1].index = alog[j].index + 1
       /\ pc["A"] = "inflight"
          => /\ apc = "awaiting"
             /\ qop = "getChannelStats"
             /\ alog # <<>>
             /\ alog[Len(alog)] = Event(aidx, "fetch")
       /\ AddChannelDone
          => /\ alog # <<>>
             /\ alog[Len(alog)].index = Len(identifiers)
             /\ alog[Len(alog)].event # "fetch"
             /\ Len(aerrors) = Len(ErrorEvents)
             /\ \A j \in DOMAIN aerrors :
                   /\ aerrors[j].identifier = identifiers[ErrorEvents[j].index]
                   /\ (aerrors[j].kind = "InvalidIdentifierFormat")
                         <=> (ErrorEvents[j].event = "invalid")
             /\ trackedChannels = aclosure \o anew
             /\ Len(anew) = Len(SelectSeq(alog, LAMBDA e : e.event = "added"))
             /\ anew # <<>> => storage[ChannelsItem] = Stringify(trackedChannels)
             /\ \A j \in DOMAIN alog :
                   (/\ alog[j].event \in {"added", "duplicate"}
                    /\ FastPath(ExtractChannelId(identifiers[alog[j].index])[1]))
                   => \E i \in DOMAIN trackedChannels :
                         trackedChannels[i].id
                            = ExtractChannelId(identifiers[alog[j].index])[1]

\* Of two identifiers the first failed and the second was added after it.
WitC26 ==
    /\ AddChannelDone
    /\ alog = <<Event(1, "fetch"), Event(1, "failed"), Event(2, "fetch"), Event(2, "added")>>
    /\ Len(aerrors) = 1
    /\ aerrors[1].identifier = AtHandle
    /\ aerrors[1].text = "forbidden"
    /\ trackedChannels[Len(trackedChannels)].id = ChannelY

\* The lines of the input that hold something else than blanks.
WrittenLines == Filter(channelInput, LAMBDA l : \E i \in DOMAIN l : l[i] # " ")

\* The events that a step of the handler has added to alog.
NewEvents == SubSeq(alog', Len(alog) + 1, Len(alog'))

\* C27: an identifier that extractChannelId returns null for gets an
\* "Invalid format" entry and no fetch; a step of the handler that passes
\* over such identifiers takes no key and sends no request for them (it
\* sends at most the first request of the next identifier that parses), and
\* blank lines are not identifiers and get no entry.
PropC27 ==
    /\ [](AddChannelDone
          => /\ Len(IdentifiersOf(channelInput)) = Len(WrittenLines)
             /\ \A j \in DOMAIN aerrors : aerrors[j].identifier # <<>>
             /\ \A k \in DOMAIN WrittenLines :
                   ExtractChannelId(WrittenLines[k]) = Null
                   => /\ \E j \in DOMAIN alog : alog[j] = Event(k, "invalid")
                      /\ \A j \in DOMAIN alog : alog[j] # Event(k, "fetch")
                      /\ \E j \in DOMAIN aerrors :
                            /\ aerrors[j] = InvalidEntry(Trim(WrittenLines[k]))
                            /\ ErrorEvents[j] = Event(k, "invalid"))
    /\ [][(alog' # alog /\ alog' # <<>>)
          => IF alog'[Len(alog')].event = "fetch"
             THEN Len(log'["A"]) <= 1
             ELSE /\ currentKeyIndex' = currentKeyIndex
                  /\ pc'["A"] = "idle"
                  /\ log'["A"] = <<>>]_vars
    /\ [][\A k \in DOMAIN NewEvents :
             NewEvents[k].event = "invalid"
             => /\ ExtractChannelId(IdentifiersOf(channelInput')[NewEvents[k].index]) = Null
                /\ qcalls' = <<>>
                /\ rcalls' <= 1]_vars

\* A blank line and an identifier that does not parse were submitted: one
\* entry, no key taken.
WitC27 ==
    /\ AddChannelDone
    /\ channelInput = <<<<" ">>, UCShort>>
    /\ aerrors = <<InvalidEntry(UCShort)>>
    /\ alog = <<Event(1, "invalid")>>
    /\ currentKeyIndex = 0
    /\ appError = "Could not add all channels:"

\* What the App holds for a key, and what a reload reads back from its item.
InMemory(k) ==
    CASE k = ApiKeysItem -> apiKeysState
      [] k = ChannelsItem -> trackedChannels
      [] k = GroupsItem -> channelGroups
      [] OTHER -> videosPerPage

Restored(k) == IF k = VideosPerPageItem THEN ParseIntItem(storage[k]) ELSE Parse(storage[k])

\* C30: whenever a handler changes what the App holds for a key, or writes
\* the item of a key, the item written is whole and reads back as the value
\* the App holds after the handler (for the credentials, also the pool of the
\* service); a handler that changes nothing for a key leaves its item alone.
PropC30 ==
    [][~isLoading
       => \A k \in StoreKeys :
             (InMemory(k)' # InMemory(k) \/ storage'[k] # storage[k])
             => /\ Saved(storage'[k])
                /\ ~ParseThrows(storage'[k])
                /\ Restored(k)' = InMemory(k)'
                /\ k = ApiKeysItem => apiKeys' = apiKeysState']_vars

\* A channel was removed while another was being fetched: the handler ended
\* on the list it had started from plus the new channel, in the App and in
\* the store alike.
WitC30 ==
    /\ AddChannelDone
    /\ aclosure = <<ChannelStatsOf(ChannelX)>>
    /\ trackedChannels = <<ChannelStatsOf(ChannelX), ChannelStatsOf(ChannelY)>>
    /\ storage[ChannelsItem] = Stringify(trackedChannels)
    /\ channelGroups = <<Group("group-1", <<>>)>>
    /\ storage[GroupsItem] = Stringify(channelGroups)

\* The numeral of t tenths with one decimal digit, a trailing ".0" left out.
OneDecimal(t) ==
    StringOf(t \div 10) \o (IF t % 10 = 0 THEN <<>> ELSE <<".", Digits[(t % 10) + 1]>>)

\* The numbers of tenths nearest to number / unit (two of them on a tie).
NearestTenths(number, unit) ==
    {t \in {(10 * number) \div unit, (10 * number) \div unit + 1} :
        (2 * (10 * number - t * unit) <= unit) /\ (2 * (t * unit - 10 * number) <= unit)}

\* C31: formatNumber maps 999 to "999", 1500 to "1.5K" and 2000000 to "2M";
\* a number below 1000 is returned as its decimal numeral, and a number from
\* 1000 on is returned scaled to thousands (below 1000000) or to millions,
\* with one decimal digit (a nearest tenth of the scaled value), the trailing
\* ".0" left out, followed by "K" or "M".
InvC31 ==
    fres # <<>> =>
        /\ fnum = 999 => fres = <<"9", "9", "9">>
        /\ fnum = 1500 => fres = <<"1", ".", "5", "K">>
        /\ fnum = 2000000 => fres = <<"2", "M">>
        /\ fnum < 1000 => fres = StringOf(fnum)
        /\ (fnum >= 1000 /\ fnum < 1000000) =>
              \E t \in NearestTenths(fnum, 1000) : fres = OneDecimal(t) \o <<"K">>
        /\ fnum >= 1000000 =>
              \E t \in NearestTenths(fnum, 1000000) : fres = OneDecimal(t) \o <<"M">>

WitC31 == fnum = 2000000 /\ fres = <<"2", "M">>

\* C32: a logical call on a pool of N >= 1 keys that is not replaced during
\* the call never makes more than N HTTP requests, whatever mix of quota
\* rejections, other error responses and transport failures its attempts meet.
InvC32 ==
    \A c \in Observed :
        (pc[c] # "idle" /\ ~replaced[c] /\ Len(apiKeys) >= 1)
        => Len(log[c]) <= Len(apiKeys)

WitC32 ==
    \E c \in Observed :
        /\ pc[c] = "done" /\ ~replaced[c] /\ Len(apiKeys) >= 2
        /\ Len(log[c]) = Len(apiKeys)
        /\ \E i \in DOMAIN log[c] : log[c][i].class = "quota"
        /\ \E i \in DOMAIN log[c] : log[c][i].class \in {"other", "network"}

\* C33: the range of getOldestVideoInRange includes both of its bounds: a
\* video published exactly at the start instant or exactly at the end instant
\* is inside it, so the call does not return null while the collection has
\* such a video, and the video it returns lies from start to end, either
\* bound included.
InvC33 ==
    OldestInRangeDone
    => /\ qres.value = <<>>
          => \A v \in VideosOf(qcat) :
                /\ GetTime(v.publishedAt) # GetTime(qargs.start)
                /\ GetTime(v.publishedAt) # GetTime(qargs.end)
       /\ qres.value # <<>>
          => /\ GetTime(qargs.start) <= GetTime(qres.value[1].publishedAt)
             /\ GetTime(qres.value[1].publishedAt) <= GetTime(qargs.end)

\* The video returned was published at the instant that is both bounds.
WitC33 ==
    /\ OldestInRangeDone
    /\ qres.value # <<>>
    /\ qargs.start = qargs.end
    /\ qres.value[1].publishedAt = qargs.start

\* getOldestVideoInRange or getNewestVideoInRange has handed the call on.
DelegatedOldest == qop = "getOldestVideo" /\ qargs.via = "getOldestVideoInRange"

DelegatedNewest == qop = "getChannelVideos" /\ qargs.via = "getNewestVideoInRange"

\* The call was made with its start or its end left out.
BoundLeftOut == qargs.start = NoDate \/ qargs.end = NoDate

\* C34: getOldestVideoInRange hands the call to getOldestVideo exactly when
\* start or end is missing, a call with one bound included, and then returns
\* what getOldestVideo returns for the collection: one request for the first
\* page, null when that fetch fails or the page is empty, the oldest item of
\* the page otherwise, the bound that was given playing no part.  In the same
\* cases getNewestVideoInRange returns the most recent video overall.
PropC34 ==
    /\ [](/\ qop = "getOldestVideoInRange" => ~BoundLeftOut
          /\ DelegatedOldest
             => /\ BoundLeftOut
                /\ qcalls = <<PlaylistReq(BatchSize, NoToken)>>
          /\ DelegatedNewest
             => /\ BoundLeftOut
                /\ (qpc = "done" /\ qres.kind = "ok")
                   => qres.value =
                         IF qcat[1] = <<>> THEN <<>> ELSE <<ToVideoStat(qcat[1][1])>>)
    /\ [][(DelegatedOldest /\ qpc = "playlist" /\ qpc' = "done")
          => qres' =
                IF result["A"].kind # "ok" \/ qcat[1] = <<>>
                THEN QOk(Null)
                ELSE QOk(<<SnippetStat(SortedItems(qcat[1])[1])>>)]_vars

\* Called with a start and no end, getOldestVideoInRange has returned a video
\* published before that start.
WitC34 ==
    /\ DelegatedOldest
    /\ qpc = "done"
    /\ qargs.start # NoDate
    /\ qargs.end = NoDate
    /\ qres.value # <<>>
    /\ GetTime(qres.value[1].publishedAt) < GetTime(qargs.start)

\* C35 (as claimed): in the single-channel view every video of
\* selectedChannel was fetched for the channel selectedChannel.stats.id, and
\* its nextPageToken, when it has one, is a page token of that channel, in
\* every interleaving of handleLoadMore, handleBackToMultiView and
\* handleSelectChannel.
CexC35 ==
    selectedChannel # <<>>
    => /\ \A i \in DOMAIN selectedChannel[1].videos :
             selectedChannel[1].videos[i].channel = selectedChannel[1].stats.id
       /\ selectedChannel[1].nextPageToken # <<>>
          => selectedChannel[1].nextPageToken[1].channel = selectedChannel[1].stats.id

\* The ids of the channels the App tracks, and of those in the stored list.
TrackedIds == {trackedChannels[i].id : i \in DOMAIN trackedChannels}

StoredIds ==
    {Parse(storage[ChannelsItem])[i].id : i \in DOMAIN Parse(storage[ChannelsItem])}

\* C36 (as claimed): a channel that is not tracked, a removed one included,
\* stays out of trackedChannels and out of the stored list until
\* handleAddChannel fetches it as a new channel, also when it was removed
\* while a handleAddChannel for other identifiers was awaiting.
CexC36 ==
    [][~isLoading
       => \A id \in TrackedIds' \cup StoredIds' :
             ((id \notin TrackedIds) \/ (id \notin StoredIds))
             => id \in {anew'[i].id : i \in DOMAIN anew'}]_vars

\* No two entries of the list have the same channel id.
NoDuplicateIds(list) == \A i, j \in DOMAIN list : list[i].id = list[j].id => i = j

\* C37: whatever handleAddChannel and handleRemoveChannel have done, one
\* during the other included, the tracked list and the stored list never
\* hold two entries with the same canonical channel id, also when one input
\* names a channel twice or names a channel that is tracked already, in
\* whatever identifier form.
InvC37 ==
    /\ NoDuplicateIds(trackedChannels)
    /\ NoDuplicateIds(Parse(storage[ChannelsItem]))

\* One input named a channel by its URL and by its id: the first was added,
\* the second found a duplicate, and a channel was removed during the fetches.
WitC37 ==
    /\ AddChannelDone
    /\ channelInput = <<ChannelUrl, ChannelY>>
    /\ \E j \in DOMAIN alog : alog[j] = Event(1, "added")
    /\ \E j \in DOMAIN alog : alog[j] = Event(2, "duplicate")
    /\ Len(trackedChannels) = Len(aclosure) + 1
    /\ storage[GroupsItem] = Stringify(<<Group("group-1", <<>>)>>)

RECURSIVE TotalAttempts(_)
TotalAttempts(calls) ==
    IF calls = <<>> THEN 0 ELSE calls[1].attempts + TotalAttempts(Tail(calls))

\* C38: one resolve makes at most two fetchYouTubeAPI calls; a username
\* lookup that ended in AllCredentialsExhausted is followed by the search all
\* the same; and while the pool of N keys is not replaced, the calls of one
\* resolve make at most 2 * N HTTP attempts together.
PropC38 ==
    /\ [](rcalls <= 2 /\ Len(rattempts) <= rcalls)
    /\ [][/\ (rpc = "username" /\ rpc' # "username"
               /\ result["A"].kind = "AllCredentialsExhausted")
             => /\ rpc' = "search"
                /\ rcalls' = 2
                /\ pc'["A"] # "idle"
          /\ (Len(rattempts') > Len(rattempts)
               /\ \A i \in DOMAIN rattempts' : ~rattempts'[i].replaced)
             => TotalAttempts(rattempts') <= 2 * Len(apiKeys)]_vars

\* Both calls used up the pool of two keys: four HTTP attempts.
WitC38 ==
    /\ rpc = "done"
    /\ Len(apiKeys) = 2
    /\ Len(rattempts) = 2
    /\ rattempts[1] = [attempts |-> 2, kind |-> "AllCredentialsExhausted", replaced |-> FALSE]
    /\ rattempts[2] = [attempts |-> 2, kind |-> "AllCredentialsExhausted", replaced |-> FALSE]
    /\ rresult.kind = "AllCredentialsExhausted"

\* The position of a key in the pool, counted from 1.
Position(key) == CHOOSE i \in DOMAIN apiKeys : apiKeys[i] = key

\* C39: with no other call in flight and the pool of N >= 1 keys not
\* replaced, the first HTTP attempt of a logical call takes the key under the
\* cursor, each further attempt takes the key at the next position, wrapping
\* round, and after k attempts the cursor is at (cursor before + k) mod N; no
\* step of the call changes the pool.
PropC39 ==
    /\ []((pc["A"] # "idle" /\ ~replaced["A"] /\ Len(apiKeys) >= 1 /\ log["A"] # <<>>)
          => LET lg == log["A"]
                 N == Len(apiKeys)
                 before == Position(lg[1].key) - 1
             IN /\ \A i \in 1..(Len(lg) - 1) :
                      Position(lg[i + 1].key) = (Position(lg[i].key) % N) + 1
                /\ currentKeyIndex = (before + Len(lg)) % N)
    /\ [][/\ (pc["A"] = "idle" /\ pc'["A"] # "idle" /\ Len(apiKeys) >= 1)
             => log'["A"][1].key = apiKeys[currentKeyIndex + 1]
          /\ (pc' # pc \/ log' # log) => apiKeys' = apiKeys]_vars

\* A call of two attempts on a pool of two keys began at the second key and
\* wrapped round: the cursor is where it was.
WitC39 ==
    /\ pc["A"] = "done"
    /\ ~replaced["A"]
    /\ Len(apiKeys) = 2
    /\ Len(log["A"]) = 2
    /\ log["A"][1].key = apiKeys[2]
    /\ log["A"][2].key = apiKeys[1]
    /\ currentKeyIndex = 1

\* C40: as every request settles, each of the flags isAddingChannel,
\* isLoadingVideos, isLoadingMore and isLoadingComparison, once raised, is
\* lowered again, whether the handler that raised it succeeds or fails; and
\* the step in which handleSelectChannel or handleSelectGroup fails puts the
\* view back to 'multi'.
PropC40 ==
    /\ isAddingChannel ~> ~isAddingChannel
    /\ isLoadingVideos ~> ~isLoadingVideos
    /\ isLoadingMore ~> ~isLoadingMore
    /\ isLoadingComparison ~> ~isLoadingComparison
    /\ [][/\ (spc = "awaiting" /\ spc' = "idle" /\ selectedChannel' = <<>>)
             => (view' = "multi" /\ ~isLoadingVideos')
          /\ (gpc = "awaiting" /\ gpc' = "idle" /\ SomeRejected')
             => (view' = "multi" /\ ~isLoadingComparison')]_vars

\* A load-more has failed and its flag is down, on the dashboard it was
\* started from.
WitC40 ==
    /\ DashboardShown
    /\ lpc = "idle"
    /\ ~isLoadingMore
    /\ appError = "TransportError"

====
